---- MODULE Spec2Model ----
(***************************************************************************)
(* Record-linkage and enrichment core of contract-scraper.                 *)
(*                                                                         *)
(* Strings are sequences of one-character strings.  A similarity score is  *)
(* the exact rational <<num, den>> of the floating point value the code    *)
(* returns (1 is <<1,1>>, 0.9 is <<9,10>>, 1 - d/m is <<m - d, m>>).       *)
(***************************************************************************)
EXTENDS Integers, Sequences, FiniteSets, TLC

VARIABLES
  simA, simB, simRes,      \* similarityScore: the two arguments, the results
  jobs,                    \* deduplicateJobs: the input array
  pc,                      \* position in deduplicateJobs
  i,                       \* index of the outer loop / of the result loop
  processed,               \* ids already placed in a cluster
  clusters,                \* clusters, each an array of positions in jobs
  unique,                  \* result.unique, positions in jobs
  duplicates,              \* result.duplicates, [kept, removed]
  cleanIn,                 \* cleanJobListing: the record passed in
  cleanOut,                \* cleanJobListing: the record returned
  cleanPc,                 \* cleanJobListing: ready, done, again or thrown
  cleanTwice,              \* cleanJobListing of the record returned
  callOp,                  \* a function applied on its own: its name
  callArgs,                \* the arguments it is applied to
  callRes,                 \* what it returned
  pool,                    \* records the core is applied to in turn
  origin,                  \* the record each of them was at first
  trail,                   \* the operations applied so far
  promises,                \* fetchAllJobs: the promise of every source
  settled,                 \* the fetchers that completed, in that order
  fetchPc,                 \* position in fetchAllJobs
  fetchResults             \* what fetchAllJobs resolves with

simVars == <<simA, simB, simRes>>
dedupeVars == <<jobs, pc, i, processed, clusters, unique, duplicates>>
cleanVars == <<cleanIn, cleanOut, cleanPc, cleanTwice>>
callVars == <<callOp, callArgs, callRes>>
coreVars == <<pool, origin, trail>>
fetchVars == <<promises, settled, fetchPc, fetchResults>>
vars == <<simA, simB, simRes, jobs, pc, i, processed, clusters, unique,
          duplicates, cleanIn, cleanOut, cleanPc, cleanTwice, callOp,
          callArgs, callRes, pool, origin, trail, promises, settled,
          fetchPc, fetchResults>>

\* null of an enumerated field (a TLA+ string)
NULL == "null"

\* null and undefined where the code expects a string: no string of
\* characters has an element of several characters
NullString == <<"null">>

UndefinedString == <<"undefined">>

\* null where the code expects a text
NullText == <<[kind |-> "null"]>>

\* null where the code expects a number
NullNumber == -1

\* ------------------------------------------------------------------------
\* Similarity Engine: similarityScore (enrich.ts)
\* ------------------------------------------------------------------------

\* the one element of a set of one: { e(x) : x \in {v} } is e with x bound
\* to the value of v, computed once
Only(S) == CHOOSE x \in S : TRUE

Min2(x, y) == IF x <= y THEN x ELSE y

Max2(x, y) == IF x >= y THEN x ELSE y

\* String.prototype.includes: b occurs in a as a contiguous run
includes(a, b) ==
  \E k \in 0..(Len(a) - Len(b)) : SubSeq(a, k + 1, k + Len(b)) = b

\* one row of the matrix: acc holds matrix[i][0..j-1], prev is matrix[i-1]
RECURSIVE LevRow(_, _, _, _, _)
LevRow(prev, ai, b, j, acc) ==
  IF j > Len(b) THEN acc
  ELSE LET cost == IF ai = b[j] THEN 0 ELSE 1
           cell == Min2(Min2(prev[j + 1] + 1, acc[j] + 1), prev[j] + cost)
       IN Only({ LevRow(prev, ai, b, j + 1, row) : row \in {Append(acc, cell)} })

RECURSIVE LevRows(_, _, _, _)
LevRows(a, b, r, prev) ==
  IF r > Len(a) THEN prev[Len(b) + 1]
  ELSE Only({ LevRows(a, b, r + 1, row) :
              row \in {LevRow(prev, a[r], b, 1, <<r>>)} })

\* matrix[a.length][b.length]
LevDistance(a, b) == LevRows(a, b, 1, [j \in 1..(Len(b) + 1) |-> j - 1])

\* mutant: the ratio is taken over a.length instead of the longer length
similarityScore_OwnLength(a, b) ==
  IF a = b THEN <<1, 1>>
  ELSE IF Len(a) = 0 \/ Len(b) = 0 THEN <<0, 1>>
  ELSE IF includes(a, b) \/ includes(b, a) THEN <<9, 10>>
  ELSE <<Len(a) - LevDistance(a, b), Len(a)>>

\* mutant: no containment short-circuit
similarityScore_NoContainment(a, b) ==
  IF a = b THEN <<1, 1>>
  ELSE IF Len(a) = 0 \/ Len(b) = 0 THEN <<0, 1>>
  ELSE LET maxLength == Max2(Len(a), Len(b))
       IN <<maxLength - LevDistance(a, b), maxLength>>

\* mutant: the empty-string test comes before the identity test
similarityScore_EmptyFirst(a, b) ==
  IF Len(a) = 0 \/ Len(b) = 0 THEN <<0, 1>>
  ELSE IF a = b THEN <<1, 1>>
  ELSE IF includes(a, b) \/ includes(b, a) THEN <<9, 10>>
  ELSE LET maxLength == Max2(Len(a), Len(b))
       IN <<maxLength - LevDistance(a, b), maxLength>>

similarityScore(a, b) ==
  IF a = b THEN <<1, 1>>
  ELSE IF Len(a) = 0 \/ Len(b) = 0 THEN <<0, 1>>
  ELSE IF includes(a, b) \/ includes(b, a) THEN <<9, 10>>
  ELSE LET maxLength == Max2(Len(a), Len(b))
       IN <<maxLength - LevDistance(a, b), maxLength>>

\* comparisons of scores as rationals
ScoreEq(p, q) == p[1] * q[2] = q[1] * p[2]

ScoreLT(p, q) == p[1] * q[2] < q[1] * p[2]

\* ------------------------------------------------------------------------
\* Text Normalizer: characters, normalizeTitle, normalizeCompanyName
\* ------------------------------------------------------------------------

UpperLetters ==
  <<"A", "B", "C", "D", "E", "F", "G", "H", "I", "J", "K", "L", "M",
    "N", "O", "P", "Q", "R", "S", "T", "U", "V", "W", "X", "Y", "Z">>

LowerLetters ==
  <<"a", "b", "c", "d", "e", "f", "g", "h", "i", "j", "k", "l", "m",
    "n", "o", "p", "q", "r", "s", "t", "u", "v", "w", "x", "y", "z">>

Digits == {"0", "1", "2", "3", "4", "5", "6", "7", "8", "9"}

Range(s) == {s[k] : k \in 1..Len(s)}

UpperSet == Range(UpperLetters)

LowerAlnumSet == Range(LowerLetters) \cup Digits

WordCharSet == Range(LowerLetters) \cup Range(UpperLetters) \cup Digits \cup {"_"}

\* String.prototype.toLowerCase on one character
lowerChar(c) ==
  IF c \in UpperSet
  THEN LowerLetters[CHOOSE k \in 1..Len(UpperLetters) : UpperLetters[k] = c]
  ELSE c

toLowerCase(s) == [k \in 1..Len(s) |-> lowerChar(s[k])]

\* the class [a-z0-9]
IsLowerAlnum(c) == c \in LowerAlnumSet

\* the class \w
IsWordChar(c) == c \in WordCharSet

\* the class \s
IsSpace(c) == c \in {" ", "\t", "\n"}

\* String.prototype.trim
RECURSIVE trimStart(_)
trimStart(s) ==
  IF Len(s) > 0 /\ IsSpace(s[1]) THEN trimStart(Tail(s)) ELSE s

RECURSIVE trimEnd(_)
trimEnd(s) ==
  IF Len(s) > 0 /\ IsSpace(s[Len(s)])
  THEN trimEnd(SubSeq(s, 1, Len(s) - 1)) ELSE s

trim(s) == trimEnd(trimStart(s))

\* .replace(/\s+/g, ' ')
RECURSIVE collapseSpaces(_)
collapseSpaces(s) ==
  IF Len(s) = 0 THEN s
  ELSE IF IsSpace(s[1])
       THEN <<" ">> \o collapseSpaces(trimStart(s))
       ELSE <<s[1]>> \o collapseSpaces(Tail(s))

\* title.toLowerCase() throws a TypeError when title is undefined or null
normalizeTitleThrows(title) == title \in {UndefinedString, NullString}

normalizeTitle(title) ==
  LET lowered == toLowerCase(title)
      spaced == [k \in 1..Len(lowered) |->
                   IF IsLowerAlnum(lowered[k]) THEN lowered[k] ELSE " "]
  IN trim(collapseSpaces(spaced))

COMPANY_SUFFIXES ==
  { <<"i", "n", "c">>,
    <<"i", "n", "c", "o", "r", "p", "o", "r", "a", "t", "e", "d">>,
    <<"l", "l", "c">>, <<"l", "l", "p">>, <<"l", "p">>,
    <<"c", "o", "r", "p">>,
    <<"c", "o", "r", "p", "o", "r", "a", "t", "i", "o", "n">>, <<"c", "o">>,
    <<"c", "o", "m", "p", "a", "n", "y">>,
    <<"l", "i", "m", "i", "t", "e", "d">>, <<"l", "t", "d">>,
    <<"p", "l", "l", "c">>, <<"p", "c">>, <<"p", "l", "c">>,
    <<"g", "m", "b", "h">>, <<"a", "g">>, <<"k", "g">>, <<"o", "h", "g">>,
    <<"u", "g">>, <<"b", "v">>, <<"n", "v">>, <<"s", "a">>,
    <<"s", "a", "r", "l">>, <<"s", "a", "s">>, <<"i", "n", "t", "l">>,
    <<"i", "n", "t", "e", "r", "n", "a", "t", "i", "o", "n", "a", "l">>,
    <<"g", "r", "o", "u", "p">>, <<"h", "o", "l", "d", "i", "n", "g", "s">>,
    <<"t", "e", "c", "h", "n", "o", "l", "o", "g", "i", "e", "s">>,
    <<"t", "e", "c", "h", "n", "o", "l", "o", "g", "y">>,
    <<"t", "e", "c", "h">>, <<"l", "a", "b", "s">>,
    <<"s", "t", "u", "d", "i", "o">>, <<"s", "t", "u", "d", "i", "o", "s">>,
    <<"s", "o", "f", "t", "w", "a", "r", "e">>,
    <<"s", "o", "l", "u", "t", "i", "o", "n", "s">>,
    <<"s", "y", "s", "t", "e", "m", "s">>,
    <<"s", "e", "r", "v", "i", "c", "e", "s">>,
    <<"c", "o", "n", "s", "u", "l", "t", "i", "n", "g">> }

\* the word characters the string ends with
RECURSIVE trailingWord(_)
trailingWord(s) ==
  IF Len(s) > 0 /\ IsWordChar(s[Len(s)])
  THEN Append(trailingWord(SubSeq(s, 1, Len(s) - 1)), s[Len(s)])
  ELSE <<>>

\* .replace(suffixPattern, '') for \b(suffix|...)\.?\s*$ with flags gi: the
\* suffix follows a word boundary and runs to the end (or to a final dot
\* and blanks), so it is the whole last word
stripSuffix(s) ==
  LET t == trimEnd(s)
      core == IF Len(t) > 0 /\ t[Len(t)] = "."
              THEN SubSeq(t, 1, Len(t) - 1) ELSE t
      w == trailingWord(core)
  IN IF w \in COMPANY_SUFFIXES
     THEN SubSeq(core, 1, Len(core) - Len(w))
     ELSE s

IsAlnumOrSpace(c) == IsLowerAlnum(c) \/ IsSpace(c)

NotSpace(c) == ~IsSpace(c)

normalizeCompanyName(name) ==
  IF name = NullString \/ name = <<>> THEN <<>>
  ELSE LET n0 == trim(toLowerCase(name))
           n1 == trim(stripSuffix(n0))
           n2 == trim(stripSuffix(n1))
           n3 == trim(stripSuffix(n2))
       IN trim(SelectSeq(SelectSeq(n3, IsAlnumOrSpace), NotSpace))

\* ------------------------------------------------------------------------
\* Free text: a sequence of tokens separated by single spaces
\* ------------------------------------------------------------------------

\* a word of the text
Word(w) == [kind |-> "word", w |-> w]

\* n characters of running text carrying no signal
Prose(n) == [kind |-> "prose", len |-> n]

\* a numeral as written: digits with commas and dots
Num(chars) == [kind |-> "num", text |-> chars]

\* a punctuation or currency sign; the signs outside ASCII go by their names
\* ("euro-sign", "pound-sign", "en-dash", "em-dash")
Sym(c) == [kind |-> "sym", s |-> c]

\* what is read past the end of a text
EndOfText == [kind |-> "end"]

TokAt(text, p) == IF p >= 1 /\ p <= Len(text) THEN text[p] ELSE EndOfText

IsSym(t, c) == t.kind = "sym" /\ t.s = c

TokenLength(t) ==
  CASE t.kind = "word" -> Len(t.w)
    [] t.kind = "prose" -> t.len
    [] t.kind = "num" -> Len(t.text)
    [] t.kind = "entity" -> Len(t.name) + 2
    [] t.kind = "tail" -> Len(t.name) + 1
    [] OTHER -> 1

RECURSIVE SumLengths(_)
SumLengths(text) ==
  IF Len(text) = 0 THEN 0 ELSE TokenLength(text[1]) + SumLengths(Tail(text))

\* String.prototype.length of the text
TextLength(text) ==
  IF Len(text) = 0 THEN 0 ELSE SumLengths(text) + (Len(text) - 1)

\* ------------------------------------------------------------------------
\* Signal Extractor: salary (SALARY_PATTERNS, extractSalaryFromText)
\*
\* A salary phrase is read token by token: the \s* of the patterns are the
\* gaps between tokens, "per" stands with blanks around it and "/" stands
\* directly before the unit, as the patterns require.
\* ------------------------------------------------------------------------

DigitValue(c) ==
  CASE c = "0" -> 0 [] c = "1" -> 1 [] c = "2" -> 2 [] c = "3" -> 3
    [] c = "4" -> 4 [] c = "5" -> 5 [] c = "6" -> 6 [] c = "7" -> 7
    [] c = "8" -> 8 [] c = "9" -> 9

IsDigit(c) == c \in Digits

\* parseFloat of a string of digits
RECURSIVE parseDigits(_)
parseDigits(str) ==
  IF Len(str) = 0 THEN 0
  ELSE parseDigits(SubSeq(str, 1, Len(str) - 1)) * 10
       + DigitValue(SubSeq(str, Len(str), Len(str)))

\* the longest prefix of str within the class
RECURSIVE prefixIn(_, _)
prefixIn(str, class) ==
  IF Len(str) > 0 /\ Head(str) \in class
  THEN Head(str) \o prefixIn(Tail(str), class)
  ELSE ""

\* str.replace(/c/g, '')
RECURSIVE without(_, _)
without(str, c) ==
  IF Len(str) = 0 THEN ""
  ELSE (IF Head(str) = c THEN "" ELSE Head(str)) \o without(Tail(str), c)

\* str.startsWith(pre)
startsWith(str, pre) ==
  Len(str) >= Len(pre) /\ SubSeq(str, 1, Len(pre)) = pre

RECURSIVE lowerString(_)
lowerString(str) ==
  IF Len(str) = 0 THEN ""
  ELSE lowerChar(Head(str)) \o lowerString(Tail(str))

\* the token is the word w (flag i)
IsWord(t, w) == t.kind = "word" /\ lowerString(t.w) = w

DigitsComma == Digits \cup {","}

DigitsDotComma == Digits \cup {",", "."}

\* ([\d,]+) at a numeral: the part of it that is captured
captureUSD(t) == IF t.kind = "num" THEN prefixIn(t.text, DigitsComma) ELSE ""

\* ([\d.,]+) at a numeral
captureEUR(t) == IF t.kind = "num" THEN prefixIn(t.text, DigitsDotComma) ELSE ""

\* NaN: what parseFloat returns for a string that starts with no number.
\* Every comparison with it is false.
NaN == -2

\* parseFloat(m.replace(/,/g, ''))
parseUSD(str) ==
  IF prefixIn(without(str, ","), Digits) = "" THEN NaN
  ELSE parseDigits(prefixIn(without(str, ","), Digits))

\* parseFloat(m.replace(/\./g, '').replace(',', '.')): the dots are dropped
\* and the first comma starts the decimals, which the model leaves out
parseEUR(str) ==
  LET s == without(str, ".")
  IN IF prefixIn(s, Digits) # "" THEN parseDigits(prefixIn(s, Digits))
     ELSE IF Len(s) > 1 /\ prefixIn(Tail(s), Digits) # "" THEN 0
     ELSE NaN

\* [-–—to]+ (flag i)
IsSeparator(t) ==
  \/ t.kind = "sym" /\ t.s \in {"-", "--", "en-dash", "em-dash"}
  \/ t.kind = "word" /\ lowerString(t.w) \in {"to", "t", "o", "ot", "too"}

\* k (flag i) read where a word starts
IsK(t) == t.kind = "word" /\ lowerString(t.w) = "k"

StartsWithK(t) == t.kind = "word" /\ startsWith(lowerString(t.w), "k")

\* (year|yr|annual|annually|hour|hr|hourly|month) read where a word starts:
\* the first alternative of the pattern that the word begins with
UnitHint(t, hints) ==
  IF t.kind # "word" THEN ""
  ELSE LET w == lowerString(t.w)
           hit(h) == h \in hints /\ startsWith(w, h)
       IN CASE hit("year") -> "year"
            [] hit("yr") -> "yr"
            [] hit("annual") -> "annual"
            [] hit("month") -> "month"
            [] hit("hour") -> "hour"
            [] hit("hr") -> "hr"
            [] OTHER -> ""

NoMatch == [ok |-> FALSE]

\* typeHint.includes('hour') || typeHint.includes('hr')
IsHourlyHint(h) == h \in {"hour", "hr"}

\* the tail \s*k?\s*(?:per\s+)?(hints)? from position q: k, per and the hint.
\* A k that starts a longer word is taken, and then nothing follows it.
trailer(text, q, hints, allowK) ==
  LET k == allowK /\ StartsWithK(TokAt(text, q))
      cut == k /\ ~IsK(TokAt(text, q))
      q1 == IF k THEN q + 1 ELSE q
      per == IsWord(TokAt(text, q1), "per") /\ q1 < Len(text)
      q2 == IF per THEN q1 + 1 ELSE q1
  IN [k |-> k, hint |-> IF cut THEN "" ELSE UnitHint(TokAt(text, q2), hints)]

\* $100k - $150k, $100K-150K, $100,000 - $150,000
matchUSDRange(text, p, cur, cur2, hints) ==
  LET n1 == TokAt(text, p + 1)
      c1 == captureUSD(n1)
      k1 == IsK(TokAt(text, p + 2))
      ps == IF k1 THEN p + 3 ELSE p + 2
      d2 == \/ TokAt(text, ps + 1).kind = "sym" /\ TokAt(text, ps + 1).s \in cur2
            \/ /\ TokAt(text, ps + 1).kind = "word"
               /\ lowerString(TokAt(text, ps + 1).w) \in cur2
      pn == IF d2 THEN ps + 2 ELSE ps + 1
      n2 == TokAt(text, pn)
      c2 == captureUSD(n2)
      whole2 == n2.kind = "num" /\ Len(c2) = Len(n2.text)
      tl == IF whole2 THEN trailer(text, pn + 1, hints, TRUE)
            ELSE [k |-> FALSE, hint |-> ""]
  IN IF /\ TokAt(text, p).kind \in {"sym", "word"}
        /\ \/ TokAt(text, p).kind = "sym" /\ TokAt(text, p).s \in cur
           \/ TokAt(text, p).kind = "word" /\ lowerString(TokAt(text, p).w) \in cur
        /\ n1.kind = "num" /\ Len(c1) > 0 /\ Len(c1) = Len(n1.text)
        /\ IsSeparator(TokAt(text, ps))
        /\ Len(c2) > 0
     THEN [ok |-> TRUE, m1 |-> c1, m2 |-> c2, hasK |-> k1 \/ tl.k,
           hint |-> tl.hint]
     ELSE NoMatch

\* $100k+, $150K+
matchUSDPlus(text, p) ==
  LET n1 == TokAt(text, p + 1)
      c1 == captureUSD(n1)
      k1 == IsK(TokAt(text, p + 2))
      pp == IF k1 THEN p + 3 ELSE p + 2
      tl == trailer(text, pp + 1, {"year", "yr", "annual", "hour", "hr"}, FALSE)
  IN IF /\ IsSym(TokAt(text, p), "$")
        /\ n1.kind = "num" /\ Len(c1) > 0 /\ Len(c1) = Len(n1.text)
        /\ IsSym(TokAt(text, pp), "+")
     THEN [ok |-> TRUE, m1 |-> c1, hasK |-> k1, hint |-> tl.hint]
     ELSE NoMatch

IsEuro(t) ==
  \/ t.kind = "sym" /\ t.s = "euro-sign"
  \/ t.kind = "word" /\ lowerString(t.w) = "eur"

\* EUR 80,000 - 120,000
matchEURRange(text, p) ==
  LET n1 == TokAt(text, p + 1)
      e2 == IsEuro(TokAt(text, p + 3))
      pn == IF e2 THEN p + 4 ELSE p + 3
      n2 == TokAt(text, pn)
  IN IF /\ IsEuro(TokAt(text, p))
        /\ n1.kind = "num" /\ Len(captureEUR(n1)) > 0
        /\ IsSeparator(TokAt(text, p + 2))
        /\ n2.kind = "num" /\ Len(captureEUR(n2)) > 0
     THEN [ok |-> TRUE, m1 |-> captureEUR(n1), m2 |-> captureEUR(n2)]
     ELSE NoMatch

\* Hourly rate: $50/hr, $75 per hour, $50-75/hour
matchHourly(text, p) ==
  LET n1 == TokAt(text, p + 1)
      c1 == captureUSD(n1)
      d2 == IsSym(TokAt(text, p + 3), "$")
      pn == IF d2 THEN p + 4 ELSE p + 3
      n2 == TokAt(text, pn)
      c2 == captureUSD(n2)
      rate(q) == /\ \/ IsSym(TokAt(text, q), "/")
                    \/ IsWord(TokAt(text, q), "per")
                 /\ UnitHint(TokAt(text, q + 1), {"hr", "hour"}) # ""
      ranged == /\ IsSeparator(TokAt(text, p + 2))
                /\ n2.kind = "num" /\ Len(c2) > 0 /\ Len(c2) = Len(n2.text)
                /\ rate(pn + 1)
  IN IF /\ IsSym(TokAt(text, p), "$")
        /\ n1.kind = "num" /\ Len(c1) > 0 /\ Len(c1) = Len(n1.text)
        /\ (ranged \/ rate(p + 2))
     THEN [ok |-> TRUE, m1 |-> c1, m2 |-> IF ranged THEN c2 ELSE ""]
     ELSE NoMatch

\* the patterns of SALARY_PATTERNS, by their place in the table
SalaryPatternCount == 5

matchPattern(n, text, p) ==
  CASE n = 1 -> matchUSDRange(text, p, {"$"}, {"$"},
                              {"year", "yr", "annual", "hour", "hr"})
    [] n = 2 -> matchUSDPlus(text, p)
    [] n = 3 -> matchEURRange(text, p)
    [] n = 4 -> matchUSDRange(text, p, {"pound-sign", "gbp"}, {"pound-sign", "gbp"},
                              {"year", "annual"})
    [] n = 5 -> matchHourly(text, p)

\* pattern.exec(text): the leftmost match
RECURSIVE execFrom(_, _, _)
execFrom(n, text, p) ==
  IF p > Len(text) THEN NoMatch
  ELSE IF matchPattern(n, text, p).ok THEN matchPattern(n, text, p)
  ELSE execFrom(n, text, p + 1)

\* if the match holds a 'k' and the number is small, multiply by 1000
kilo(v, hasK) == IF hasK /\ v # NaN /\ v < 1000 THEN v * 1000 ELSE v

Salary(min, max, currency, type) ==
  [min |-> min, max |-> max, currency |-> currency, type |-> type]

handler(n, m) ==
  CASE n = 1 -> Salary(kilo(parseUSD(m.m1), m.hasK), kilo(parseUSD(m.m2), m.hasK),
                       "USD", IF IsHourlyHint(m.hint) THEN "hourly" ELSE "yearly")
    [] n = 2 -> Salary(kilo(parseUSD(m.m1), m.hasK), NullNumber,
                       "USD", IF IsHourlyHint(m.hint) THEN "hourly" ELSE "yearly")
    [] n = 3 -> Salary(parseEUR(m.m1), parseEUR(m.m2), "EUR", "yearly")
    [] n = 4 -> Salary(kilo(parseUSD(m.m1), m.hasK), kilo(parseUSD(m.m2), m.hasK),
                       "GBP", "yearly")
    [] n = 5 -> Salary(parseUSD(m.m1),
                       IF Len(m.m2) > 0 THEN parseUSD(m.m2) ELSE NullNumber,
                       "USD", "hourly")

MaxSalary == 10000000

\* the extraction found nothing
NoSalary == [min |-> NullNumber, max |-> NullNumber, currency |-> NULL,
             type |-> NULL, found |-> FALSE]

Unreasonable(v) == v # NullNumber /\ v # NaN /\ (v < 0 \/ v > MaxSalary)

\* the validation of what a handler returns: [skip |-> TRUE] for continue
validate(result) ==
  IF Unreasonable(result.min) \/ Unreasonable(result.max)
  THEN [skip |-> TRUE]
  ELSE IF /\ result.max # NullNumber /\ result.min # NaN /\ result.max # NaN
          /\ result.min > result.max
  THEN [skip |-> FALSE, min |-> result.max, max |-> result.min,
        currency |-> result.currency, type |-> result.type, found |-> TRUE]
  ELSE [skip |-> FALSE, min |-> result.min, max |-> result.max,
        currency |-> result.currency, type |-> result.type, found |-> TRUE]

\* mutant: a result that fails the validation ends the extraction
RECURSIVE tryPatterns_ReturnNull(_, _)
tryPatterns_ReturnNull(n, text) ==
  IF n > SalaryPatternCount THEN NoSalary
  ELSE Only({ IF ~m.ok THEN tryPatterns_ReturnNull(n + 1, text)
              ELSE Only({ IF v.skip THEN NoSalary
                          ELSE [min |-> v.min, max |-> v.max,
                                currency |-> v.currency, type |-> v.type,
                                found |-> TRUE] :
                          v \in {validate(handler(n, m))} }) :
              m \in {execFrom(n, text, 1)} })

\* the loop over SALARY_PATTERNS from the n-th pattern on
RECURSIVE tryPatterns(_, _)
tryPatterns(n, text) ==
  IF n > SalaryPatternCount THEN NoSalary
  ELSE Only({ IF ~m.ok THEN tryPatterns(n + 1, text)
              ELSE Only({ IF v.skip THEN tryPatterns(n + 1, text)
                          ELSE [min |-> v.min, max |-> v.max,
                                currency |-> v.currency, type |-> v.type,
                                found |-> TRUE] :
                          v \in {validate(handler(n, m))} }) :
              m \in {execFrom(n, text, 1)} })

\* ------------------------------------------------------------------------
\* Text Normalizer: HTML (decodeHTMLEntities, stripHTML, cleanText,
\* cleanCompanyName)
\*
\* Blanks are the gaps between tokens; a line break is a token of its own.
\* ------------------------------------------------------------------------

\* <name> or </name>
Tag(name, closing) == [kind |-> "tag", name |-> name, closing |-> closing]

\* &name;
Entity(name) == [kind |-> "entity", name |-> name]

\* the characters name; written directly after the piece before them: after
\* an ampersand they make the entity &name;
EntityTail(name) == [kind |-> "tail", name |-> name]

Newline == [kind |-> "nl"]

HexValue(c) ==
  CASE c \in Digits -> DigitValue(c)
    [] c \in {"a", "A"} -> 10 [] c \in {"b", "B"} -> 11 [] c \in {"c", "C"} -> 12
    [] c \in {"d", "D"} -> 13 [] c \in {"e", "E"} -> 14 [] c \in {"f", "F"} -> 15

HexDigits == Digits \cup {"a", "b", "c", "d", "e", "f", "A", "B", "C", "D", "E", "F"}

RECURSIVE parseHex(_)
parseHex(str) ==
  IF Len(str) = 0 THEN 0
  ELSE parseHex(SubSeq(str, 1, Len(str) - 1)) * 16
       + HexValue(SubSeq(str, Len(str), Len(str)))

\* String.fromCharCode(code), for the codes of signs the extractors read;
\* any other character is running text
fromCharCode(code) ==
  CASE code = 32 -> <<>>
    [] code = 36 -> <<Sym("$")>>
    [] code = 38 -> <<Sym("&")>>
    [] code = 43 -> <<Sym("+")>>
    [] code = 45 -> <<Sym("-")>>
    [] code = 47 -> <<Sym("/")>>
    [] code = 60 -> <<Sym("<")>>
    [] code = 62 -> <<Sym(">")>>
    [] code = 163 -> <<Sym("pound-sign")>>
    [] code = 8364 -> <<Sym("euro-sign")>>
    [] OTHER -> <<Prose(1)>>

\* the replacement of HTML_ENTITIES for a named entity (flag i)
HTML_ENTITIES(name) ==
  LET n == lowerString(name)
  IN CASE n = "amp" -> <<Sym("&")>>
       [] n = "lt" -> <<Sym("<")>>
       [] n = "gt" -> <<Sym(">")>>
       [] n = "quot" -> <<Sym("\"")>>
       [] n \in {"apos", "lsquo", "rsquo"} -> <<Sym("'")>>
       [] n = "nbsp" -> <<>>
       [] n \in {"ndash", "mdash"} -> <<Sym("-")>>
       [] n \in {"ldquo", "rdquo"} -> <<Sym("\"")>>
       [] n = "bull" -> <<Sym("*")>>
       [] n = "hellip" -> <<Sym("...")>>
       [] n = "copy" -> <<Sym("(c)")>>
       [] n = "reg" -> <<Sym("(R)")>>
       [] n = "trade" -> <<Sym("(TM)")>>
       [] n = "euro" -> <<Word("EUR")>>
       [] n = "pound" -> <<Word("GBP")>>
       [] n = "yen" -> <<Word("JPY")>>
       [] n = "cent" -> <<Word("c")>>
       [] n = "deg" -> <<Word("degrees")>>
       [] n = "plusmn" -> <<Sym("+"), Sym("/"), Sym("-")>>
       [] n = "times" -> <<Word("x")>>
       [] n = "divide" -> <<Sym("/")>>
       [] n = "frac12" -> <<Num("1"), Sym("/"), Num("2")>>
       [] n = "frac14" -> <<Num("1"), Sym("/"), Num("4")>>
       [] n = "frac34" -> <<Num("3"), Sym("/"), Num("4")>>

NamedEntities ==
  {"amp", "lt", "gt", "quot", "apos", "nbsp", "ndash", "mdash", "lsquo",
   "rsquo", "ldquo", "rdquo", "bull", "hellip", "copy", "reg", "trade", "euro",
   "pound", "yen", "cent", "deg", "plusmn", "times", "divide", "frac12",
   "frac14", "frac34"}

MaxCharCode == 65536

\* decodeHTMLEntities of one entity: named, &#123; or &#x1A;; an entity that
\* is none of these is left as it is
decodeEntity(t) ==
  LET name == t.name
      dec == Tail(name)
      hex == Tail(Tail(name))
      char(code) == IF code > 0 /\ code < MaxCharCode THEN fromCharCode(code)
                    ELSE <<>>
  IN IF lowerString(name) \in NamedEntities THEN HTML_ENTITIES(name)
     ELSE IF /\ Len(name) > 1 /\ Head(name) = "#"
             /\ prefixIn(dec, Digits) = dec
     THEN char(parseDigits(dec))
     ELSE IF /\ Len(name) > 2 /\ SubSeq(name, 1, 2) = "#x"
             /\ prefixIn(hex, HexDigits) = hex
     THEN char(parseHex(hex))
     ELSE <<t>>

\* the text read again after a replacement: an ampersand with name; directly
\* after it is the entity &name;
RECURSIVE readEntities(_)
readEntities(text) ==
  IF Len(text) < 2 THEN text
  ELSE IF IsSym(text[1], "&") /\ text[2].kind = "tail"
  THEN <<Entity(text[2].name)>> \o readEntities(SubSeq(text, 3, Len(text)))
  ELSE <<Head(text)>> \o readEntities(Tail(text))

\* the keys of HTML_ENTITIES in the order of the table
EntityTable ==
  <<"amp", "lt", "gt", "quot", "apos", "nbsp", "ndash", "mdash", "lsquo",
    "rsquo", "ldquo", "rdquo", "bull", "hellip", "copy", "reg", "trade",
    "euro", "pound", "yen", "cent", "deg", "plusmn", "times", "divide",
    "frac12", "frac14", "frac34">>

\* the replace calls of decodeHTMLEntities in their order: one for each key
\* of the table, then /&#(\d+);/g, then /&#x([0-9a-fA-F]+);/g
Passes == EntityTable \o <<"#", "#x">>

\* the pattern of an entity that is read on its own, /&[#\w]+;/g
AnyEntity == "&"

\* does the pattern of the replace call match the entity &name;
inPass(name, pass) ==
  CASE pass = AnyEntity -> TRUE
    [] pass = "#" -> /\ Len(name) > 1 /\ Head(name) = "#"
                     /\ prefixIn(Tail(name), Digits) = Tail(name)
    [] pass = "#x" -> /\ Len(name) > 2 /\ SubSeq(name, 1, 2) = "#x"
                      /\ prefixIn(Tail(Tail(name)), HexDigits)
                           = Tail(Tail(name))
    [] OTHER -> lowerString(name) = pass

\* an entity whose replacement is a blank
IsBlankEntity(t) ==
  \/ lowerString(t.name) = "nbsp"
  \/ inPass(t.name, "#") /\ parseDigits(Tail(t.name)) = 32
  \/ inPass(t.name, "#x") /\ parseHex(Tail(Tail(t.name))) = 32

\* name; after a blank is no longer directly after an ampersand
detach(t) == <<Word(t.name), Sym(";")>>

\* one replace call: every entity the pattern matches gives way to its
\* replacement; what a replacement leaves is not matched in the same call
RECURSIVE replacePass(_, _)
replacePass(text, pass) ==
  IF Len(text) = 0 THEN <<>>
  ELSE IF Head(text).kind = "entity" /\ inPass(Head(text).name, pass)
  THEN IF /\ IsBlankEntity(Head(text)) /\ Len(text) > 1
          /\ text[2].kind = "tail"
       THEN detach(text[2]) \o replacePass(Tail(Tail(text)), pass)
       ELSE decodeEntity(Head(text)) \o replacePass(Tail(text), pass)
  ELSE <<Head(text)>> \o replacePass(Tail(text), pass)

\* the replace calls from the n-th on, each on the result of the one before
RECURSIVE replaceFrom(_, _)
replaceFrom(text, n) ==
  IF n > Len(Passes) THEN text
  ELSE Only({ replaceFrom(t, n + 1) :
              t \in {readEntities(replacePass(text, Passes[n]))} })

\* every entity decoded on its own
decodeTokens(text) == readEntities(replacePass(readEntities(text), AnyEntity))

\* a text that is undefined
UndefinedText == <<[kind |-> "undefined"]>>

\* a text that is null
IsNullText(text) == text = NullText

decodeHTMLEntities(text) ==
  IF IsNullText(text) THEN <<>> ELSE replaceFrom(readEntities(text), 1)

\* p|div|h[1-6]|li|tr
BlockElements == {"p", "div", "h1", "h2", "h3", "h4", "h5", "h6", "li", "tr"}

\* the signs < name > and < / name > written out one by one are the tag
RECURSIVE readTags(_)
readTags(text) ==
  IF Len(text) = 0 THEN <<>>
  ELSE IF /\ Len(text) >= 3 /\ IsSym(text[1], "<") /\ text[2].kind = "word"
          /\ IsSym(text[3], ">")
  THEN <<Tag(text[2].w, FALSE)>> \o readTags(SubSeq(text, 4, Len(text)))
  ELSE IF /\ Len(text) >= 4 /\ IsSym(text[1], "<") /\ IsSym(text[2], "/")
          /\ text[3].kind = "word" /\ IsSym(text[4], ">")
  THEN <<Tag(text[3].w, TRUE)>> \o readTags(SubSeq(text, 5, Len(text)))
  ELSE <<Head(text)>> \o readTags(Tail(text))

\* the four replacements of block elements by line breaks
blockBreak(t) ==
  IF t.kind # "tag" THEN <<t>>
  ELSE LET n == lowerString(t.name)
       IN IF t.closing /\ n \in BlockElements \cup {"br"} THEN <<Newline>>
          ELSE IF ~t.closing /\ n \in BlockElements \cup {"br"} THEN <<Newline>>
          ELSE IF ~t.closing /\ n = "hr" THEN <<Newline, Sym("---"), Newline>>
          ELSE <<t>>

RECURSIVE blockBreaks(_)
blockBreaks(text) ==
  IF Len(text) = 0 THEN <<>>
  ELSE blockBreak(Head(text)) \o blockBreaks(Tail(text))

\* where the first > at or after position p is, 0 if there is none
RECURSIVE closeAt(_, _)
closeAt(text, p) ==
  IF p > Len(text) THEN 0
  ELSE IF text[p].kind = "tag" \/ IsSym(text[p], ">") THEN p
  ELSE closeAt(text, p + 1)

\* .replace(/<[^>]*>/g, '')
RECURSIVE removeTags(_)
removeTags(text) ==
  IF Len(text) = 0 THEN <<>>
  ELSE IF Head(text).kind = "tag" THEN removeTags(Tail(text))
  ELSE IF IsSym(Head(text), "<") /\ closeAt(text, 2) > 0
  THEN removeTags(SubSeq(text, closeAt(text, 2) + 1, Len(text)))
  ELSE <<Head(text)>> \o removeTags(Tail(text))

\* .replace(/&[#\w]+;/g, ...): an entity that does not decode becomes a blank
RECURSIVE replaceEntities(_)
replaceEntities(text) ==
  IF Len(text) = 0 THEN <<>>
  ELSE IF Head(text).kind # "entity"
  THEN <<Head(text)>> \o replaceEntities(Tail(text))
  ELSE IF /\ \/ IsBlankEntity(Head(text))
             \/ decodeEntity(Head(text)) = <<Head(text)>>
          /\ Len(text) > 1 /\ text[2].kind = "tail"
  THEN detach(text[2]) \o replaceEntities(Tail(Tail(text)))
  ELSE (IF decodeEntity(Head(text)) # <<Head(text)>>
        THEN decodeEntity(Head(text))
        ELSE <<>>) \o replaceEntities(Tail(text))

\* two pieces of text left with nothing between them
fuse(a, b) ==
  IF a.kind = "word" /\ b.kind = "word" THEN <<Word(a.w \o b.w)>>
  ELSE IF a.kind = "num" /\ b.kind = "num" THEN <<Num(a.text \o b.text)>>
  ELSE <<a, b>>

\* how many line breaks the text starts with
RECURSIVE breaksAhead(_)
breaksAhead(text) ==
  IF Len(text) > 0 /\ Head(text).kind = "nl" THEN 1 + breaksAhead(Tail(text))
  ELSE 0

\* the whitespace replacements: /\n\s*\n/ -> '\n\n', then /^\s+|\s+$/gm -> '',
\* then trim. Line breaks at either end go; one line break between two
\* pieces stays; of two or more, the first is taken by \s+$ and the rest by
\* ^\s+, which leaves the two pieces joined.
RECURSIVE normalizeBreaks(_, _)
normalizeBreaks(done, rest) ==
  IF Len(rest) = 0 THEN done
  ELSE IF Head(rest).kind # "nl"
  THEN normalizeBreaks(Append(done, Head(rest)), Tail(rest))
  ELSE LET n == breaksAhead(rest)
           after == SubSeq(rest, n + 1, Len(rest))
       IN IF Len(after) = 0 THEN done
          ELSE IF Len(done) = 0 THEN normalizeBreaks(<<>>, after)
          ELSE IF n = 1 THEN normalizeBreaks(Append(done, Newline), after)
          ELSE normalizeBreaks(SubSeq(done, 1, Len(done) - 1)
                                 \o fuse(done[Len(done)], Head(after)),
                               Tail(after))

stripHTML(text) ==
  IF IsNullText(text) \/ Len(text) = 0 THEN <<>>
  ELSE readEntities(normalizeBreaks(<<>>,
         replaceEntities(removeTags(blockBreaks(readTags(
           readEntities(text)))))))

NotNewline(t) == t.kind # "nl"

cleanText(text) ==
  IF IsNullText(text) \/ Len(text) = 0 THEN <<>>
  ELSE SelectSeq(stripHTML(decodeHTMLEntities(text)), NotNewline)

cleanCompanyName(name) ==
  IF IsNullText(name) \/ Len(name) = 0 THEN <<>>
  ELSE SelectSeq(decodeTokens(name), NotNewline)

\* the patterns read \s across line breaks
extractSalaryFromText(text) ==
  IF IsNullText(text) \/ Len(text) = 0 THEN NoSalary
  ELSE tryPatterns(1, SelectSeq(text, NotNewline))

\* ------------------------------------------------------------------------
\* Signal Extractor: tech stack, experience level, contract type
\* (TECH_PATTERNS, EXPERIENCE_PATTERNS, CONTRACT_PATTERNS)
\*
\* \b(...)\b is a whole word of the text, upper or lower case.
\* ------------------------------------------------------------------------

\* \b(w1|w2|...)\b
hasWord(text, ws) ==
  \E p \in 1..Len(text) : text[p].kind = "word" /\ lowerString(text[p].w) \in ws

\* \b(a\s*b)\b, the two words apart
hasSpaced(text, a, b) ==
  \E p \in 1..Len(text) : IsWord(text[p], a) /\ IsWord(TokAt(text, p + 1), b)

\* \b(a[\s-]*b)\b, the two words apart or hyphenated
hasHyphenated(text, a, b) ==
  \E p \in 1..Len(text) :
    /\ IsWord(text[p], a)
    /\ \/ IsWord(TokAt(text, p + 1), b)
       \/ IsSym(TokAt(text, p + 1), "-") /\ IsWord(TokAt(text, p + 2), b)

IsYears(t) == t.kind = "word" /\ lowerString(t.w) \in {"year", "years"}

\* \b n: the numeral is n, or ends in n after a dot or a comma
EndsInNumber(t, n) ==
  /\ t.kind = "num"
  /\ \/ t.text = n
     \/ /\ Len(t.text) > Len(n)
        /\ SubSeq(t.text, Len(t.text) - Len(n) + 1, Len(t.text)) = n
        /\ SubSeq(t.text, Len(t.text) - Len(n), Len(t.text) - Len(n)) \in {".", ","}

\* \b(lo-hi\s*years?)\b
hasYearRange(text, lo, hi) ==
  \E p \in 1..Len(text) :
    /\ EndsInNumber(text[p], lo)
    /\ IsSym(TokAt(text, p + 1), "-")
    /\ TokAt(text, p + 2).kind = "num" /\ TokAt(text, p + 2).text = hi
    /\ IsYears(TokAt(text, p + 3))

\* \b(n\+?\s*years?)\b
hasYearsOrMore(text, n) ==
  \E p \in 1..Len(text) :
    /\ EndsInNumber(text[p], n)
    /\ \/ IsYears(TokAt(text, p + 1))
       \/ IsSym(TokAt(text, p + 1), "+") /\ IsYears(TokAt(text, p + 2))

EXPERIENCE_PATTERNS(level, text) ==
  LET t == SelectSeq(text, NotNewline)
  IN CASE level = "junior" ->
            \/ hasWord(t, {"junior", "entrylevel", "newgrad", "graduate"})
            \/ hasHyphenated(t, "entry", "level")
            \/ hasYearRange(t, "0", "2") \/ hasYearRange(t, "1", "2")
            \/ hasSpaced(t, "new", "grad")
       [] level = "mid" ->
            \/ hasWord(t, {"midlevel", "intermediate"})
            \/ hasHyphenated(t, "mid", "level")
            \/ hasYearRange(t, "3", "5") \/ hasYearRange(t, "2", "4")
       [] level = "senior" ->
            \/ hasWord(t, {"senior", "sr", "experienced"})
            \/ hasYearsOrMore(t, "5") \/ hasYearsOrMore(t, "6")
            \/ hasYearsOrMore(t, "7")
       [] level = "lead" ->
            \/ hasWord(t, {"lead", "principal", "staff", "architect", "manager",
                           "director", "headof"})
            \/ hasSpaced(t, "head", "of")

CONTRACT_PATTERNS(type, text) ==
  LET t == SelectSeq(text, NotNewline)
  IN CASE type = "full-time" ->
            \/ hasWord(t, {"fulltime", "permanent", "fte"})
            \/ hasHyphenated(t, "full", "time")
       [] type = "part-time" ->
            hasWord(t, {"parttime"}) \/ hasHyphenated(t, "part", "time")
       [] type = "contract" ->
            \/ hasWord(t, {"contract", "contractor", "c2c", "corptocorp"})
            \/ \E p \in 1..Len(t) :
                 /\ IsWord(t[p], "corp") /\ IsWord(TokAt(t, p + 1), "to")
                 /\ IsWord(TokAt(t, p + 2), "corp")
       [] type = "freelance" ->
            \/ hasWord(t, {"freelance", "freelancer", "gig", "projectbased"})
            \/ hasHyphenated(t, "project", "based")

\* Check in order of seniority (lead first, junior last)
\* mutant: the patterns are tried from junior up
detectExperienceLevel_JuniorFirst(text) ==
  IF EXPERIENCE_PATTERNS("junior", text) THEN "junior"
  ELSE IF EXPERIENCE_PATTERNS("mid", text) THEN "mid"
  ELSE IF EXPERIENCE_PATTERNS("senior", text) THEN "senior"
  ELSE IF EXPERIENCE_PATTERNS("lead", text) THEN "lead"
  ELSE NULL

detectExperienceLevel(text) ==
  IF EXPERIENCE_PATTERNS("lead", text) THEN "lead"
  ELSE IF EXPERIENCE_PATTERNS("senior", text) THEN "senior"
  ELSE IF EXPERIENCE_PATTERNS("mid", text) THEN "mid"
  ELSE IF EXPERIENCE_PATTERNS("junior", text) THEN "junior"
  ELSE NULL

detectContractType(text) ==
  IF CONTRACT_PATTERNS("freelance", text) THEN "freelance"
  ELSE IF CONTRACT_PATTERNS("contract", text) THEN "contract"
  ELSE IF CONTRACT_PATTERNS("part-time", text) THEN "part-time"
  ELSE IF CONTRACT_PATTERNS("full-time", text) THEN "full-time"
  ELSE NULL

\* the first entries of TECH_PATTERNS, in the order of the table
TechNames == <<"javascript", "typescript", "python", "rust", "go", "java">>

TECH_PATTERNS(tech, text) ==
  LET t == SelectSeq(text, NotNewline)
  IN CASE tech = "javascript" -> hasWord(t, {"javascript", "js"})
       [] tech = "typescript" -> hasWord(t, {"typescript", "ts"})
       [] tech = "python" -> hasWord(t, {"python"})
       [] tech = "rust" -> hasWord(t, {"rust"})
       [] tech = "go" ->
            \/ hasWord(t, {"golang"})
            \/ hasSpaced(t, "go", "programming") \/ hasSpaced(t, "go", "developer")
       [] tech = "java" ->
            \E p \in 1..Len(t) :
              /\ IsWord(t[p], "java")
              /\ ~(/\ TokAt(t, p + 1).kind = "word"
                   /\ startsWith(lowerString(TokAt(t, p + 1).w), "script"))

extractTechStack(text) ==
  SelectSeq(TechNames, LAMBDA tech : TECH_PATTERNS(tech, text))

\* ------------------------------------------------------------------------
\* Enricher: normalizeLocation, cleanJobListing
\* ------------------------------------------------------------------------

\* the table usStates, an entry per state name of one word
usStates(w) ==
  CASE w = "california" -> "CA" [] w = "texas" -> "TX" [] w = "florida" -> "FL"
    [] w = "washington" -> "WA" [] w = "colorado" -> "CO"
    [] w = "massachusetts" -> "MA" [] w = "illinois" -> "IL"
    [] w = "georgia" -> "GA" [] w = "pennsylvania" -> "PA" [] w = "oregon" -> "OR"
    [] w = "arizona" -> "AZ" [] w = "virginia" -> "VA" [] w = "ohio" -> "OH"
    [] w = "michigan" -> "MI" [] w = "utah" -> "UT" [] w = "minnesota" -> "MN"
    [] OTHER -> ""

\* the replacements of the state names, 'new york' and 'north carolina' among
\* them
RECURSIVE abbreviateStates(_)
abbreviateStates(text) ==
  IF Len(text) = 0 THEN <<>>
  ELSE IF IsWord(text[1], "new") /\ IsWord(TokAt(text, 2), "york")
  THEN <<Word("NY")>> \o abbreviateStates(SubSeq(text, 3, Len(text)))
  ELSE IF IsWord(text[1], "north") /\ IsWord(TokAt(text, 2), "carolina")
  THEN <<Word("NC")>> \o abbreviateStates(SubSeq(text, 3, Len(text)))
  ELSE IF text[1].kind = "word" /\ usStates(lowerString(text[1].w)) # ""
  THEN <<Word(usStates(lowerString(text[1].w)))>> \o abbreviateStates(Tail(text))
  ELSE <<Head(text)>> \o abbreviateStates(Tail(text))

normalizeLocation(location) ==
  IF IsNullText(location) \/ Len(location) = 0 THEN NullText
  ELSE LET decoded == decodeHTMLEntities(location)
           remote == hasWord(decoded, {"remote", "anywhere", "worldwide",
                                       "global", "distributed"})
           normalized == abbreviateStates(
                           IF remote THEN SelectSeq(decoded, NotNewline)
                           ELSE decoded)
       IN IF Len(normalized) = 0 THEN NullText ELSE normalized

\* a tech_stack that is missing from the record
UndefinedList == <<"undefined">>

\* mutant: the list is spread without the Set
uniqueEntries_Spread(list) == list

\* [...new Set(list)]: the first occurrence of each entry, in order
RECURSIVE uniqueEntries(_)
uniqueEntries(list) ==
  IF Len(list) = 0 THEN <<>>
  ELSE LET front == uniqueEntries(SubSeq(list, 1, Len(list) - 1))
           last == list[Len(list)]
       IN IF \E p \in 1..Len(front) : front[p] = last THEN front
          ELSE Append(front, last)

\* the text is neither null nor empty
Truthy(text) == ~IsNullText(text) /\ text # UndefinedText /\ Len(text) > 0

\* spreading job.tech_stack throws when it is not an array
cleanJobListingThrows(job) == job.tech_stack = UndefinedList

\* the record returned, from the cleaned texts and what was extracted from
\* them
cleanedListing(job, cleanedTitle, cleanedCompany, cleanedDescription, extractedSalary, textForAnalysis) ==
  [job EXCEPT
     !.title = cleanedTitle,
     !.company = cleanedCompany,
     !.description = cleanedDescription,
     !.salary_min = IF extractedSalary.found THEN extractedSalary.min
                    ELSE job.salary_min,
     !.salary_max = IF extractedSalary.found THEN extractedSalary.max
                    ELSE job.salary_max,
     !.salary_currency = IF extractedSalary.found THEN extractedSalary.currency
                         ELSE job.salary_currency,
     !.salary_type = IF extractedSalary.found THEN extractedSalary.type
                     ELSE job.salary_type,
     !.tech_stack = uniqueEntries(job.tech_stack
                                  \o extractTechStack(textForAnalysis)),
     !.experience_level = IF job.experience_level # NULL
                          THEN job.experience_level
                          ELSE detectExperienceLevel(textForAnalysis),
     !.contract_type = IF job.contract_type # NULL THEN job.contract_type
                       ELSE detectContractType(textForAnalysis),
     !.location = normalizeLocation(job.location)]

\* the salary is looked for only if salary_min is null and the cleaned
\* description is not empty; what is found replaces all four salary fields
cleanJobListing(job) ==
  Only({ Only({ cleanedListing(job, cleanedTitle, cleanedCompany,
                               cleanedDescription, extractedSalary,
                               textForAnalysis) :
                extractedSalary \in
                  {IF job.salary_min = NullNumber /\ Truthy(cleanedDescription)
                   THEN extractSalaryFromText(cleanedDescription)
                   ELSE NoSalary},
                textForAnalysis \in
                  {(IF Truthy(cleanedTitle) THEN cleanedTitle ELSE <<>>)
                   \o (IF Truthy(cleanedDescription) THEN cleanedDescription
                       ELSE <<>>)} }) :
         cleanedDescription \in
           {IF Truthy(job.description) THEN stripHTML(job.description)
            ELSE NullText},
         cleanedCompany \in
           {IF Truthy(job.company) THEN cleanCompanyName(job.company)
            ELSE NullText},
         cleanedTitle \in
           {IF Truthy(job.title) THEN cleanText(job.title) ELSE job.title} })

\* cleanJobListing(job) returns the cleaned record
CleanJobListing ==
  /\ cleanPc = "ready"
  /\ ~cleanJobListingThrows(cleanIn)
  /\ cleanOut' = cleanJobListing(cleanIn)
  /\ cleanPc' = "done"
  /\ UNCHANGED <<cleanIn, cleanTwice>>
  /\ UNCHANGED <<simVars, dedupeVars, callVars, coreVars, fetchVars>>

\* cleanJobListing(job) throws a TypeError
CleanJobListingThrows ==
  /\ cleanPc = "ready"
  /\ cleanJobListingThrows(cleanIn)
  /\ cleanPc' = "thrown"
  /\ UNCHANGED <<cleanIn, cleanOut, cleanTwice>>
  /\ UNCHANGED <<simVars, dedupeVars, callVars, coreVars, fetchVars>>

\* enrichment is run again on the record it returned
CleanAgain ==
  /\ cleanPc = "done"
  /\ cleanTwice' = cleanJobListing(cleanOut)
  /\ cleanPc' = "again"
  /\ UNCHANGED <<cleanIn, cleanOut>>
  /\ UNCHANGED <<simVars, dedupeVars, callVars, coreVars, fetchVars>>

CleanIdle ==
  /\ cleanIn = <<>>
  /\ cleanOut = <<>>
  /\ cleanTwice = <<>>
  /\ cleanPc = "idle"

\* ------------------------------------------------------------------------
\* Dedup Engine: dedupe.ts
\* ------------------------------------------------------------------------

\* 0.85
SIMILARITY_THRESHOLD == <<85, 100>>

getDedupeKeyThrows(job) == normalizeTitleThrows(job.title)

getDedupeKey(job) ==
  [normalizedCompany |-> normalizeCompanyName(job.company),
   normalizedTitle |-> normalizeTitle(job.title)]

\* mutant: the title test is dropped
areSimilar_CompanyOnly(a, b) ==
  ~ScoreLT(similarityScore(a.normalizedCompany, b.normalizedCompany),
           SIMILARITY_THRESHOLD)

\* mutant: the company test is dropped
areSimilar_TitleOnly(a, b) ==
  ~ScoreLT(similarityScore(a.normalizedTitle, b.normalizedTitle),
           SIMILARITY_THRESHOLD)

areSimilar(a, b) ==
  LET companySimilarity ==
        similarityScore(a.normalizedCompany, b.normalizedCompany)
      titleSimilarity ==
        similarityScore(a.normalizedTitle, b.normalizedTitle)
  IN IF ScoreLT(companySimilarity, SIMILARITY_THRESHOLD) THEN FALSE
     ELSE IF ScoreLT(titleSimilarity, SIMILARITY_THRESHOLD) THEN FALSE
     ELSE TRUE

\* SOURCE_PRIORITY[platform] ?? 0
SOURCE_PRIORITY(platform) ==
  CASE platform = "hn" -> 4
    [] platform = "wwr" -> 3
    [] platform = "jobicy" -> 2
    [] platform = "himalayas" -> 1
    [] OTHER -> 0

\* description.length: a description is a sequence of text tokens
getPriority(job) ==
  LET basePriority == SOURCE_PRIORITY(job.platform)
      b1 == IF job.salary_min # NullNumber THEN 2 ELSE 0
      b2 == IF job.description # NullText /\ TextLength(job.description) > 200
            THEN 1 ELSE 0
      b3 == IF Len(job.tech_stack) > 2 THEN 1 ELSE 0
  IN basePriority + b1 + b2 + b3

\* posted_at ? new Date(posted_at).getTime() : 0
postedTime(job) == IF job.posted_at # NullNumber THEN job.posted_at ELSE 0

\* mutant: the priority difference is taken the other way round
compareJobs_Ascending(a, b) ==
  LET priorityDiff == getPriority(a) - getPriority(b)
  IN IF priorityDiff # 0 THEN priorityDiff
     ELSE postedTime(b) - postedTime(a)

\* the comparator of selectBestJob: negative when a sorts before b
compareJobs(a, b) ==
  LET priorityDiff == getPriority(b) - getPriority(a)
  IN IF priorityDiff # 0 THEN priorityDiff
     ELSE postedTime(b) - postedTime(a)

\* Array.prototype.sort is stable: x goes after every element that does
\* not compare greater than it
RECURSIVE insertSorted(_, _, _)
insertSorted(sorted, x, js) ==
  IF Len(sorted) = 0 THEN <<x>>
  ELSE IF compareJobs(js[sorted[1]], js[x]) <= 0
       THEN <<sorted[1]>> \o insertSorted(Tail(sorted), x, js)
       ELSE <<x>> \o sorted

RECURSIVE sortCluster(_, _)
sortCluster(cluster, js) ==
  IF Len(cluster) = 0 THEN <<>>
  ELSE insertSorted(sortCluster(SubSeq(cluster, 1, Len(cluster) - 1), js),
                    cluster[Len(cluster)], js)

\* jobs.sort(...)[0]: the cluster array itself is sorted in place
selectBestJob(cluster, js) == sortCluster(cluster, js)[1]

\* mutant: a job that joins a cluster is not marked as processed
RECURSIVE scanSimilar_NotMarked(_, _, _, _, _)
scanSimilar_NotMarked(js, jobKey, j, cluster, done) ==
  IF j > Len(js) THEN [cluster |-> cluster, processed |-> done, thrown |-> FALSE]
  ELSE IF js[j].id \in done
       THEN scanSimilar_NotMarked(js, jobKey, j + 1, cluster, done)
  ELSE IF getDedupeKeyThrows(js[j])
       THEN [cluster |-> cluster, processed |-> done, thrown |-> TRUE]
  ELSE IF areSimilar(jobKey, getDedupeKey(js[j]))
       THEN scanSimilar_NotMarked(js, jobKey, j + 1, Append(cluster, j), done)
  ELSE scanSimilar_NotMarked(js, jobKey, j + 1, cluster, done)

\* mutant: a job joins when it is similar to any member of the cluster
RECURSIVE scanSimilar_AnyMember(_, _, _, _, _)
scanSimilar_AnyMember(js, jobKey, j, cluster, done) ==
  IF j > Len(js) THEN [cluster |-> cluster, processed |-> done, thrown |-> FALSE]
  ELSE IF js[j].id \in done
       THEN scanSimilar_AnyMember(js, jobKey, j + 1, cluster, done)
  ELSE IF getDedupeKeyThrows(js[j])
       THEN [cluster |-> cluster, processed |-> done, thrown |-> TRUE]
  ELSE IF \E m \in Range(cluster) :
            areSimilar(getDedupeKey(js[m]), getDedupeKey(js[j]))
       THEN scanSimilar_AnyMember(js, jobKey, j + 1, Append(cluster, j),
                                  done \cup {js[j].id})
  ELSE scanSimilar_AnyMember(js, jobKey, j + 1, cluster, done)

\* the inner loop of deduplicateJobs from position j on, for the seed key
RECURSIVE scanSimilar(_, _, _, _, _)
scanSimilar(js, jobKey, j, cluster, done) ==
  IF j > Len(js) THEN [cluster |-> cluster, processed |-> done, thrown |-> FALSE]
  ELSE IF js[j].id \in done THEN scanSimilar(js, jobKey, j + 1, cluster, done)
  ELSE IF getDedupeKeyThrows(js[j])
       THEN [cluster |-> cluster, processed |-> done, thrown |-> TRUE]
  ELSE IF areSimilar(jobKey, getDedupeKey(js[j]))
       THEN scanSimilar(js, jobKey, j + 1, Append(cluster, j),
                        done \cup {js[j].id})
  ELSE scanSimilar(js, jobKey, j + 1, cluster, done)

\* one iteration of the outer loop with jobs[i] as the seed
seedCluster(js, k, done) ==
  IF getDedupeKeyThrows(js[k])
  THEN [cluster |-> <<k>>, processed |-> done, thrown |-> TRUE]
  ELSE scanSimilar(js, getDedupeKey(js[k]), k + 1, <<k>>,
                   done \cup {js[k].id})

\* if (processed.has(job.id)) continue
SkipProcessed ==
  /\ pc = "cluster"
  /\ i <= Len(jobs)
  /\ jobs[i].id \in processed
  /\ i' = i + 1
  /\ UNCHANGED <<jobs, pc, processed, clusters, unique, duplicates>>
  /\ UNCHANGED <<simVars, cleanVars, callVars, coreVars, fetchVars>>

\* a new cluster seeded by jobs[i], filled by the scan of the later jobs
BuildCluster ==
  /\ pc = "cluster"
  /\ i <= Len(jobs)
  /\ jobs[i].id \notin processed
  /\ LET r == seedCluster(jobs, i, processed)
     IN /\ ~r.thrown
        /\ clusters' = Append(clusters, r.cluster)
        /\ processed' = r.processed
  /\ i' = i + 1
  /\ UNCHANGED <<jobs, pc, unique, duplicates>>
  /\ UNCHANGED <<simVars, cleanVars, callVars, coreVars, fetchVars>>

\* getDedupeKey throws on the seed or on a scanned job: the call is left
\* with the exception, no result is returned
KeyThrows ==
  /\ pc = "cluster"
  /\ i <= Len(jobs)
  /\ jobs[i].id \notin processed
  /\ seedCluster(jobs, i, processed).thrown
  /\ pc' = "thrown"
  /\ UNCHANGED <<jobs, i, processed, clusters, unique, duplicates>>
  /\ UNCHANGED <<simVars, cleanVars, callVars, coreVars, fetchVars>>

\* the outer loop ends, the result loop starts
ClustersDone ==
  /\ pc = "cluster"
  /\ i > Len(jobs)
  /\ pc' = "build"
  /\ i' = 1
  /\ UNCHANGED <<jobs, processed, clusters, unique, duplicates>>
  /\ UNCHANGED <<simVars, cleanVars, callVars, coreVars, fetchVars>>

\* cluster.length === 1
EmitSingle ==
  /\ pc = "build"
  /\ i <= Len(clusters)
  /\ Len(clusters[i]) = 1
  /\ unique' = Append(unique, clusters[i][1])
  /\ i' = i + 1
  /\ UNCHANGED <<jobs, pc, processed, clusters, duplicates>>
  /\ UNCHANGED <<simVars, cleanVars, callVars, coreVars, fetchVars>>

\* mutant: the kept job is not filtered out of the removed list
removedOf_Unfiltered(cluster, best, js) == cluster

\* removed: cluster.filter((j) => j.id !== best.id)
removedOf(cluster, best, js) ==
  LET Other(k) == js[k].id # js[best].id IN SelectSeq(cluster, Other)

\* a cluster of several jobs: the best one is kept, the others reported
EmitBest ==
  /\ pc = "build"
  /\ i <= Len(clusters)
  /\ Len(clusters[i]) # 1
  /\ LET sorted == sortCluster(clusters[i], jobs)
         best == selectBestJob(clusters[i], jobs)
     IN /\ clusters' = [clusters EXCEPT ![i] = sorted]
        /\ unique' = Append(unique, best)
        /\ duplicates' = Append(duplicates,
                                [kept |-> best,
                                 removed |-> removedOf(sorted, best, jobs)])
  /\ i' = i + 1
  /\ UNCHANGED <<jobs, pc, processed>>
  /\ UNCHANGED <<simVars, cleanVars, callVars, coreVars, fetchVars>>

\* return { unique, duplicates, stats }
ReturnResult ==
  /\ pc = "build"
  /\ i > Len(clusters)
  /\ pc' = "done"
  /\ UNCHANGED <<jobs, i, processed, clusters, unique, duplicates>>
  /\ UNCHANGED <<simVars, cleanVars, callVars, coreVars, fetchVars>>

stats ==
  [totalInput |-> Len(jobs),
   totalUnique |-> Len(unique),
   totalDuplicates |-> Len(jobs) - Len(unique)]

\* mutant: a record that was put into a cluster still starts its own
RECURSIVE clustersFrom_NoSkip(_, _, _, _)
clustersFrom_NoSkip(js, k, done, acc) ==
  IF k > Len(js) THEN [clusters |-> acc, thrown |-> FALSE]
  ELSE Only({ IF r.thrown THEN [clusters |-> acc, thrown |-> TRUE]
              ELSE clustersFrom_NoSkip(js, k + 1, r.processed,
                                       Append(acc, r.cluster)) :
              r \in {seedCluster(js, k, done)} })

\* the outer loop of deduplicateJobs from position k on, as one function
RECURSIVE clustersFrom(_, _, _, _)
clustersFrom(js, k, done, acc) ==
  IF k > Len(js) THEN [clusters |-> acc, thrown |-> FALSE]
  ELSE IF js[k].id \in done THEN clustersFrom(js, k + 1, done, acc)
  ELSE Only({ IF r.thrown THEN [clusters |-> acc, thrown |-> TRUE]
              ELSE clustersFrom(js, k + 1, r.processed,
                                Append(acc, r.cluster)) :
              r \in {seedCluster(js, k, done)} })

\* the job a cluster leaves in result.unique
keptOf(cluster, js) ==
  IF Len(cluster) = 1 THEN cluster[1] ELSE selectBestJob(cluster, js)

\* deduplicateJobs(jobs): the clusters and result.unique as positions in
\* jobs, or the exception of getDedupeKey
deduplicateJobs(js) ==
  Only({ [thrown |-> r.thrown,
          clusters |-> r.clusters,
          unique |-> [n \in 1..Len(r.clusters) |-> keptOf(r.clusters[n], js)]] :
         r \in {clustersFrom(js, 1, {}, <<>>)} })

\* text?.length ?? 0
lengthOrZero(text) == IF IsNullText(text) THEN 0 ELSE TextLength(text)

\* primary.field ?? secondary.field
orElse(a, b, null) == IF a # null THEN a ELSE b

\* spreading tech_stack or tags throws when it is not an array
mergeJobDataThrows(primary, secondary) ==
  \/ primary.tech_stack = UndefinedList \/ secondary.tech_stack = UndefinedList
  \/ primary.tags = UndefinedList \/ secondary.tags = UndefinedList

\* mutant: salary_max is the secondary's unless that is null
mergeJobData_SecondaryMax(primary, secondary) ==
  [primary EXCEPT
     !.salary_min = orElse(primary.salary_min, secondary.salary_min, NullNumber),
     !.salary_max = orElse(secondary.salary_max, primary.salary_max, NullNumber),
     !.salary_currency =
        orElse(primary.salary_currency, secondary.salary_currency, NULL),
     !.salary_type = orElse(primary.salary_type, secondary.salary_type, NULL),
     !.tech_stack = uniqueEntries(primary.tech_stack \o secondary.tech_stack),
     !.tags = uniqueEntries(primary.tags \o secondary.tags)]

\* mutant: the fields that are not merged are spread from the secondary
mergeJobData_SpreadSecondary(primary, secondary) ==
  [secondary EXCEPT
     !.salary_min = orElse(primary.salary_min, secondary.salary_min, NullNumber),
     !.tech_stack = uniqueEntries(primary.tech_stack \o secondary.tech_stack),
     !.tags = uniqueEntries(primary.tags \o secondary.tags)]

mergeJobData(primary, secondary) ==
  [primary EXCEPT
     !.salary_min = orElse(primary.salary_min, secondary.salary_min, NullNumber),
     !.salary_max = orElse(primary.salary_max, secondary.salary_max, NullNumber),
     !.salary_currency =
        orElse(primary.salary_currency, secondary.salary_currency, NULL),
     !.salary_type = orElse(primary.salary_type, secondary.salary_type, NULL),
     !.tech_stack = uniqueEntries(primary.tech_stack \o secondary.tech_stack),
     !.tags = uniqueEntries(primary.tags \o secondary.tags),
     !.description =
        IF lengthOrZero(primary.description)
             >= lengthOrZero(secondary.description)
        THEN primary.description ELSE secondary.description,
     !.experience_level =
        orElse(primary.experience_level, secondary.experience_level, NULL),
     !.contract_type =
        orElse(primary.contract_type, secondary.contract_type, NULL)]

\* deduplicateJobs is not running
DedupeIdle ==
  /\ jobs = <<>>
  /\ pc = "idle"
  /\ i = 1
  /\ processed = {}
  /\ clusters = <<>>
  /\ unique = <<>>
  /\ duplicates = <<>>

SimIdle ==
  /\ simA = <<>>
  /\ simB = <<>>
  /\ simRes = <<>>

CallIdle ==
  /\ callOp = "idle"
  /\ callArgs = <<>>
  /\ callRes = <<>>

CoreIdle ==
  /\ pool = <<>>
  /\ origin = <<>>
  /\ trail = <<>>

\* fetchAllJobs is not running
FetchIdle ==
  /\ promises = <<>>
  /\ settled = <<>>
  /\ fetchPc = "idle"
  /\ fetchResults = <<>>

\* ------------------------------------------------------------------------
\* Inputs of the deduplication specification
\* ------------------------------------------------------------------------

MaxBatch == 3

\* (company, title) as fetched
KeyPlain == [company |-> <<"a">>, title |-> <<"a">>]
KeySameNormalized == [company |-> <<"A">>, title |-> <<"A", "-">>]
KeyTitleAB == [company |-> <<"a">>, title |-> <<"a", "b">>]
KeyTitleAC == [company |-> <<"a">>, title |-> <<"a", "c">>]
KeyCompanyAB == [company |-> <<"a", "b">>, title |-> <<"a">>]
KeyCompanyB == [company |-> <<"b">>, title |-> <<"a">>]
KeyTitleDash == [company |-> <<"a">>, title |-> <<"-">>]
KeyTitleEmpty == [company |-> <<"a">>, title |-> <<>>]
KeyTitleMissing == [company |-> <<"a">>, title |-> UndefinedString]

KeysAll ==
  { KeyPlain, KeySameNormalized, KeyTitleAB, KeyTitleAC, KeyCompanyAB,
    KeyCompanyB, KeyTitleDash, KeyTitleEmpty, KeyTitleMissing }

KeysClose == { KeyPlain }

KeysRepeatedId == { KeyPlain, KeyTitleAB, KeyTitleAC, KeyCompanyB }

\* the fields selectBestJob reads
Rank(platform, salary, description, tech, posted) ==
  [platform |-> platform, salary_min |-> salary, description |-> description,
   tech_stack |-> tech, posted_at |-> posted]

RankHnBare == Rank("hn", NullNumber, NullText, <<>>, NullNumber)
RankHnDated == Rank("hn", NullNumber, NullText, <<"go", "rust">>, 1)
RankWwrSalary == Rank("wwr", 120000, NullText, <<>>, 1)
RankWwrLong == Rank("wwr", NullNumber, <<Prose(201)>>, <<>>, 2)
RankJobicyFull ==
  Rank("jobicy", 90000, <<Prose(200)>>, <<"go", "rust", "sql">>, 2)
RankHimalayasFull ==
  Rank("himalayas", 90000, <<Prose(201)>>, <<"go", "rust", "sql">>,
       NullNumber)
RankRemotive == Rank("remotive", NullNumber, <<>>, <<>>, 2)

RanksAll ==
  { RankHnBare, RankHnDated, RankWwrSalary, RankWwrLong, RankJobicyFull,
    RankHimalayasFull, RankRemotive }

MakeJob(id, key, rank) ==
  [id |-> id, platform |-> rank.platform, company |-> key.company,
   title |-> key.title, description |-> rank.description,
   salary_min |-> rank.salary_min, tech_stack |-> rank.tech_stack,
   posted_at |-> rank.posted_at]

\* batches of n jobs with the ids 1..n: every key, one rank
BatchesByKey(n) ==
  { [k \in 1..n |-> MakeJob(k, f[k], RankHnBare)] : f \in [1..n -> KeysAll] }

\* batches of n jobs with the ids 1..n: close keys, every rank
BatchesByRank(n) ==
  { [k \in 1..n |-> MakeJob(k, f[k][1], f[k][2])] :
      f \in [1..n -> KeysClose \X RanksAll] }

\* batches of n jobs in which an id may occur more than once
BatchesRepeatedId(n) ==
  { [k \in 1..n |-> MakeJob(g[k], f[k], RankHnBare)] :
      f \in [1..n -> KeysRepeatedId], g \in [1..n -> {1, 2}] }

Batches(n) == BatchesByKey(n) \cup BatchesByRank(n) \cup BatchesRepeatedId(n)

Init ==
  /\ \E n \in 1..MaxBatch : jobs \in Batches(n)
  /\ pc = "cluster"
  /\ i = 1
  /\ processed = {}
  /\ clusters = <<>>
  /\ unique = <<>>
  /\ duplicates = <<>>
  /\ SimIdle
  /\ CleanIdle
  /\ CallIdle
  /\ CoreIdle
  /\ FetchIdle

Next ==
  \/ SkipProcessed
  \/ BuildCluster
  \/ KeyThrows
  \/ ClustersDone
  \/ EmitSingle
  \/ EmitBest
  \/ ReturnResult

Spec == Init /\ [][Next]_vars

\* ------------------------------------------------------------------------
\* Properties of deduplicateJobs
\* ------------------------------------------------------------------------

Positions == 1..Len(jobs)

Members(c) == Range(clusters[c])

\* the seed of a cluster is its earliest member in input order
SeedOf(c) == CHOOSE s \in Members(c) : \A m \in Members(c) : s <= m

KeyAt(k) == getDedupeKey(jobs[k])

\* how many times position k occurs in the array seq
CountIn(seq, k) == Cardinality({p \in 1..Len(seq) : seq[p] = k})

RECURSIVE CountRemoved(_, _)
CountRemoved(dups, k) ==
  IF Len(dups) = 0 THEN 0
  ELSE CountIn(dups[1].removed, k) + CountRemoved(Tail(dups), k)

\* the places position k has in the result
Occurrences(k) == CountIn(unique, k) + CountRemoved(duplicates, k)

ClusteringOver == pc \in {"build", "done"}

\* C1 (as stated): in every cluster of several jobs the kept job is the
\* greatest under the lexicographic order source priority, then completeness
\* bonus, then posted_at: no member is above it.
C1_Base(job) ==
  CASE job.platform = "hn" -> 4
    [] job.platform = "wwr" -> 3
    [] job.platform = "jobicy" -> 2
    [] job.platform = "himalayas" -> 1
    [] OTHER -> 0

C1_Bonus(job) ==
  (IF job.salary_min # NullNumber THEN 2 ELSE 0)
  + (IF job.description # NullText /\ TextLength(job.description) > 200
     THEN 1 ELSE 0)
  + (IF Len(job.tech_stack) > 2 THEN 1 ELSE 0)

C1_Time(job) == IF job.posted_at = NullNumber THEN 0 ELSE job.posted_at

C1_LexAtLeast(a, b) ==
  \/ C1_Base(a) > C1_Base(b)
  \/ /\ C1_Base(a) = C1_Base(b)
     /\ \/ C1_Bonus(a) > C1_Bonus(b)
        \/ C1_Bonus(a) = C1_Bonus(b) /\ C1_Time(a) >= C1_Time(b)

C1_SumAtLeast(a, b) ==
  \/ C1_Base(a) + C1_Bonus(a) > C1_Base(b) + C1_Bonus(b)
  \/ /\ C1_Base(a) + C1_Bonus(a) = C1_Base(b) + C1_Bonus(b)
     /\ C1_Time(a) >= C1_Time(b)

C1_KeptOf(c) ==
  {d \in 1..Len(duplicates) : duplicates[d].kept \in Members(c)}

C1_KeptIsLexMax ==
  pc = "done" =>
    \A c \in 1..Len(clusters) : Len(clusters[c]) > 1 =>
      /\ C1_KeptOf(c) # {}
      /\ \A d \in C1_KeptOf(c) : \A m \in Members(c) :
           C1_LexAtLeast(jobs[duplicates[d].kept], jobs[m])

\* C1 (amended): in every cluster of several jobs the kept job is greatest
\* under the order (source priority + completeness bonus, then posted_at
\* with a missing posted_at as earliest): it is in unique, and no member has
\* a greater sum, or the same sum and a later posted_at.
C1_KeptIsSumMax ==
  pc = "done" =>
    \A c \in 1..Len(clusters) : Len(clusters[c]) > 1 =>
      /\ C1_KeptOf(c) # {}
      /\ \A d \in C1_KeptOf(c) :
           /\ CountIn(unique, duplicates[d].kept) = 1
           /\ \A m \in Members(c) :
                C1_SumAtLeast(jobs[duplicates[d].kept], jobs[m])

\* a job of a lower-priority source is kept over one of a higher-priority
\* source because its bonus is larger than the gap
C1_Witness ==
  /\ pc = "done"
  /\ \E d \in 1..Len(duplicates) :
       \E m \in Range(duplicates[d].removed) :
         C1_Base(jobs[duplicates[d].kept]) < C1_Base(jobs[m])

\* C2: clustering is by seed only.  Once the clusters are built, every
\* member of a cluster is similar to the cluster's seed, and a later job
\* similar to the seed that is not in the cluster was skipped because its id
\* was already placed, in an earlier cluster or earlier in this one.
C2_SeedOnly ==
  ClusteringOver =>
    \A c \in 1..Len(clusters) :
      LET s == SeedOf(c)
      IN /\ \A m \in Members(c) \ {s} : areSimilar(KeyAt(s), KeyAt(m))
         /\ \A b \in 1..(c - 1) : SeedOf(b) < s
         /\ \A r \in Positions :
              (r > s /\ r \notin Members(c) /\ areSimilar(KeyAt(s), KeyAt(r)))
                => \E b \in 1..c : \E q \in Members(b) :
                     /\ jobs[q].id = jobs[r].id
                     /\ (b < c \/ q < r)

\* the chain A~B~C with A not similar to C, in the order A, B, C, gives the
\* clusters {A, B} and {C}
C2_Witness ==
  /\ pc = "done"
  /\ Len(jobs) = 3
  /\ areSimilar(KeyAt(1), KeyAt(2))
  /\ areSimilar(KeyAt(2), KeyAt(3))
  /\ ~areSimilar(KeyAt(1), KeyAt(3))
  /\ Len(clusters) = 2
  /\ Members(1) = {1, 2}
  /\ Members(2) = {3}

\* C3 (as stated): whatever the ids, every input job has exactly one place
\* in the result, in unique or in one removed list.
C3_EveryJobOnce ==
  pc = "done" => \A k \in Positions : Occurrences(k) = 1

\* C3 (amended): no input job has two places in the result, and of the jobs
\* carrying one id exactly one has a place; so with pairwise distinct ids
\* every input job has exactly one place.
C3_OnePlacePerId ==
  pc = "done" =>
    /\ \A k \in Positions : Occurrences(k) <= 1
    /\ \A k \in Positions :
         Cardinality({q \in Positions :
                        jobs[q].id = jobs[k].id /\ Occurrences(q) = 1}) = 1

\* a job repeating an id has no place in the result, beside a cluster of two
C3_Witness ==
  /\ pc = "done"
  /\ \E k \in Positions : Occurrences(k) = 0
  /\ \E d \in 1..Len(duplicates) : Len(duplicates[d].removed) > 0

HasOwnId(k) == \A q \in Positions \ {k} : jobs[q].id # jobs[k].id

\* C4: two jobs (each the only one with its id) whose normalized company
\* and normalized title are identical are in the same cluster: not both in
\* unique, and both in the same entry of duplicates.
C4_SameKeySameCluster ==
  pc = "done" =>
    \A x, y \in Positions :
      (x < y /\ HasOwnId(x) /\ HasOwnId(y) /\ KeyAt(x) = KeyAt(y)) =>
        /\ \E c \in 1..Len(clusters) : {x, y} \subseteq Members(c)
        /\ ~(CountIn(unique, x) > 0 /\ CountIn(unique, y) > 0)
        /\ \E d \in 1..Len(duplicates) :
             {x, y} \subseteq
               ({duplicates[d].kept} \cup Range(duplicates[d].removed))

\* two jobs fetched with different company and title strings, identical
\* once normalized, neither of them the seed of their cluster
C4_Witness ==
  /\ pc = "done"
  /\ \E x, y \in Positions :
       /\ x < y
       /\ jobs[x].title # jobs[y].title
       /\ jobs[x].company # jobs[y].company
       /\ KeyAt(x) = KeyAt(y)
       /\ \E c \in 1..Len(clusters) :
            {x, y} \subseteq Members(c) /\ SeedOf(c) < x

\* C5 (as stated): two jobs whose normalized companies are different
\* strings are never in the same cluster.
C5_DifferentCompanySeparate ==
  ClusteringOver =>
    \A c \in 1..Len(clusters) : \A x, y \in Members(c) :
      KeyAt(x).normalizedCompany = KeyAt(y).normalizedCompany

\* C5 (amended): a job is never in a cluster whose seed has a normalized
\* company scoring below 0.85 against its own, however similar the titles.
C5_Below(p) == p[1] * 100 < 85 * p[2]

C5_CompanyCloseToSeed ==
  ClusteringOver =>
    \A c \in 1..Len(clusters) : \A m \in Members(c) :
      ~C5_Below(similarityScore(KeyAt(SeedOf(c)).normalizedCompany,
                                KeyAt(m).normalizedCompany))

\* a later job with the seed's normalized title and a company scoring below
\* 0.85 is left out of the seed's cluster
C5_Witness ==
  /\ pc = "done"
  /\ \E c \in 1..Len(clusters) : \E r \in Positions :
       /\ r > SeedOf(c)
       /\ r \notin Members(c)
       /\ KeyAt(r).normalizedTitle = KeyAt(SeedOf(c)).normalizedTitle
       /\ C5_Below(similarityScore(KeyAt(SeedOf(c)).normalizedCompany,
                                   KeyAt(r).normalizedCompany))
       /\ Len(clusters[c]) > 1

\* C8: deduplicateJobs never aborts the batch on a job with a missing
\* title: the call is never left with an exception.
C8_NeverAborts == pc # "thrown"

\* C9: a job whose normalized title is empty is never in a cluster of
\* several jobs: it is in unique and in no entry of duplicates.
C9_EmptyTitleIsolated ==
  pc = "done" =>
    \A k \in Positions :
      (HasOwnId(k) /\ KeyAt(k).normalizedTitle = <<>>) =>
        /\ CountIn(unique, k) = 1
        /\ \A d \in 1..Len(duplicates) :
             k # duplicates[d].kept /\ k \notin Range(duplicates[d].removed)

\* ------------------------------------------------------------------------
\* Inputs of the similarity specification
\* ------------------------------------------------------------------------

MaxStrLen == 3

\* every string over {a, b} of at most MaxStrLen characters
ShortStrings == UNION { [1..n -> {"a", "b"}] : n \in 0..MaxStrLen }

\* longer strings: one edit apart at length 7, a rotation
LongStrings ==
  { <<"a", "b", "c">>, <<"c", "a", "b">>,
    <<"a", "b", "c", "a", "b", "c", "a">>,
    <<"a", "b", "c", "a", "b", "c", "b">>,
    <<"b", "c", "a", "b", "c", "a">> }

SimStrings == ShortStrings \cup LongStrings

SimInit ==
  /\ simA \in SimStrings
  /\ simB \in SimStrings
  /\ simRes = <<>>
  /\ DedupeIdle
  /\ CleanIdle
  /\ CallIdle
  /\ CoreIdle
  /\ FetchIdle

\* one evaluation of similarityScore on the pair, both ways and on a alone
SimCompute ==
  /\ simRes = <<>>
  /\ simRes' = <<[ab |-> similarityScore(simA, simB),
                  ba |-> similarityScore(simB, simA),
                  aa |-> similarityScore(simA, simA)]>>
  /\ UNCHANGED <<simA, simB>>
  /\ UNCHANGED <<dedupeVars, cleanVars, callVars, coreVars, fetchVars>>

SimNext == SimCompute

SpecSim == SimInit /\ [][SimNext]_vars

\* ------------------------------------------------------------------------
\* Properties of similarityScore
\* ------------------------------------------------------------------------

SimDone == simRes # <<>>

\* C6: similarityScore(a,b) = similarityScore(b,a), similarityScore(a,a) = 1
\* and the score lies in [0, 1].
C6_SymmetricUnitRange ==
  SimDone =>
    LET ab == simRes[1].ab
        ba == simRes[1].ba
        aa == simRes[1].aa
    IN /\ ab[2] > 0 /\ ba[2] > 0 /\ aa[2] > 0
       /\ ab[1] * ba[2] = ba[1] * ab[2]
       /\ aa[1] = aa[2]
       /\ 0 <= ab[1] /\ ab[1] <= ab[2]

C6_Contains(a, b) ==
  \E k \in 0..(Len(a) - Len(b)) :
    \A p \in 1..Len(b) : a[k + p] = b[p]

\* two different strings of different lengths, neither containing the
\* other: the score comes from the edit distance and is strictly inside
\* (0, 1)
C6_Witness ==
  /\ SimDone
  /\ Len(simA) # Len(simB)
  /\ Len(simA) > 0 /\ Len(simB) > 0
  /\ ~C6_Contains(simA, simB) /\ ~C6_Contains(simB, simA)
  /\ 0 < simRes[1].ab[1] /\ simRes[1].ab[1] < simRes[1].ab[2]

\* C7 (as stated): for non-empty a and b with a containing b,
\* similarityScore(a,b) = 0.9.
C7_ContainedIsNineTenths ==
  (SimDone /\ Len(simA) > 0 /\ Len(simB) > 0 /\ C6_Contains(simA, simB)) =>
    simRes[1].ab[1] * 10 = 9 * simRes[1].ab[2]

\* C7 (amended): for non-empty a and b with a containing b and a different
\* from b, similarityScore(a,b) = 0.9; similarityScore(a,a) is 1.
C7_ProperlyContainedIsNineTenths ==
  (SimDone /\ Len(simA) > 0 /\ Len(simB) > 0 /\ C6_Contains(simA, simB)) =>
    IF simA = simB
    THEN simRes[1].ab[1] = simRes[1].ab[2]
    ELSE simRes[1].ab[1] * 10 = 9 * simRes[1].ab[2]

\* a contains b in its middle, b is non-empty and shorter
C7_Witness ==
  /\ SimDone
  /\ Len(simB) > 0
  /\ Len(simA) > Len(simB)
  /\ C6_Contains(simA, simB)
  /\ SubSeq(simA, 1, Len(simB)) # simB
  /\ simRes[1].ab = <<9, 10>>

\* ------------------------------------------------------------------------
\* Inputs of the enrichment specification
\* ------------------------------------------------------------------------

\* descriptions as the fetchers deliver them
CleanDescriptions ==
  { NullText,
    <<>>,
    <<Prose(40)>>,
    <<Word("Pay"), Sym("$"), Num("50"), Sym("/"), Word("hr")>>,
    <<Tag("p", FALSE), Sym("$"), Num("100"), Word("k"), Sym("-"), Sym("$"),
      Num("150"), Word("k"), Word("per"), Word("year"), Tag("p", TRUE)>>,
    <<Sym("$"), Num("120"), Word("k"), Sym("+"), Word("for"), Word("a"),
      Word("senior"), Word("Python"), Word("developer")>>,
    <<Word("EUR"), Num("80.000"), Sym("-"), Num("120.000")>>,
    <<Entity("pound"), Num("70,000"), Word("to"), Num("50,000"),
      Word("contract")>>,
    <<Sym("$"), Num("50"), Sym("-"), Num("75"), Sym("/"), Word("hour")>>,
    <<Sym("$"), Num("99,999,999"), Sym("-"), Num("5"), Tag("br", FALSE),
      Sym("$"), Num("60"), Word("per"), Word("hour")>>,
    <<Tag("p", FALSE), Word("Full"), Sym("-"), Word("time"), Tag("p", TRUE),
      Tag("p", FALSE), Word("Lead"), Word("Rust"), Tag("p", TRUE)>>,
    <<Num("3"), Sym("-"), Num("5"), Word("years"), Word("of"), Word("Java"),
      Entity("amp"), Word("JS")>>,
    <<Word("Array"), Entity("lt"), Word("string"), Entity("gt"), Word("in"),
      Word("TypeScript")>> }

\* the salary fields a fetcher sets: min, max, currency, type
CleanSalaries ==
  { <<NullNumber, NullNumber, NULL, NULL>>,
    <<NullNumber, NullNumber, "USD", "yearly">>,
    <<NullNumber, 90000, "USD", "yearly">>,
    <<80000, 120000, "USD", "yearly">>,
    <<40, NullNumber, "EUR", "hourly">> }

CleanTitles ==
  { <<Word("Senior"), Word("Engineer")>>,
    <<Entity("lt"), Word("b"), Entity("gt"), Word("Developer")>>,
    UndefinedText }

CleanLevels == {NULL, "junior", "lead"}

CleanContracts == {NULL, "part-time"}

CleanTechStacks == {<<>>, <<"python", "sql">>, UndefinedList}

CleanLocations ==
  {NullText, <<Word("Remote"), Sym("-"), Word("New"), Word("York")>>}

CleanJob(title, description, salary, level, contract, stack, location) ==
  [id |-> "remotive:1", platform |-> "remotive", external_id |-> "1",
   title |-> title, company |-> <<Word("Acme"), Entity("amp"), Word("Co")>>,
   description |-> description,
   salary_min |-> salary[1], salary_max |-> salary[2],
   salary_currency |-> salary[3], salary_type |-> salary[4],
   contract_type |-> contract, experience_level |-> level,
   location |-> location, tech_stack |-> stack, raw |-> "payload"]

CleanInit ==
  /\ \E title \in CleanTitles, description \in CleanDescriptions,
        salary \in CleanSalaries, level \in CleanLevels,
        contract \in CleanContracts, stack \in CleanTechStacks,
        location \in CleanLocations :
       cleanIn = CleanJob(title, description, salary, level, contract, stack,
                          location)
  /\ cleanOut = <<>>
  /\ cleanTwice = <<>>
  /\ cleanPc = "ready"
  /\ DedupeIdle
  /\ SimIdle
  /\ CallIdle
  /\ CoreIdle
  /\ FetchIdle

CleanNext ==
  \/ CleanJobListing
  \/ CleanJobListingThrows
  \/ CleanAgain

SpecClean == CleanInit /\ [][CleanNext]_vars

\* ------------------------------------------------------------------------
\* Properties of cleanJobListing
\* ------------------------------------------------------------------------

\* the structured fields that hold a number, and those that hold a name
NumberFields == {"salary_min", "salary_max"}

NameFields == {"salary_currency", "salary_type", "experience_level",
               "contract_type"}

\* the field is non-null in the input and has the same value in the output
Kept(field) ==
  IF field \in NumberFields
  THEN cleanIn[field] # NullNumber => cleanOut[field] = cleanIn[field]
  ELSE cleanIn[field] # NULL => cleanOut[field] = cleanIn[field]

\* C10: cleanJobListing only fills structured fields that are null: each of
\* salary_min, salary_max, salary_currency, salary_type, experience_level and
\* contract_type that is non-null in the input has the same value in the
\* output.
C10_NonNullFieldsKept ==
  cleanPc \in {"done", "again"} => \A field \in NumberFields \cup NameFields : Kept(field)


\* the fields cleanJobListing writes
CleanedFields ==
  {"title", "company", "description", "salary_min", "salary_max",
   "salary_currency", "salary_type", "tech_stack", "experience_level",
   "contract_type", "location"}

\* C11: enrichment is idempotent: cleanJobListing of the record that
\* cleanJobListing returned equals that record, field for field.
C11_CleanTwiceIsCleanOnce ==
  cleanPc = "again" => \A field \in CleanedFields : cleanTwice[field] = cleanOut[field]

\* ------------------------------------------------------------------------
\* decodeHTMLEntities applied to its own result
\* ------------------------------------------------------------------------
MaxDecodeLen == 3

\* the pieces the texts are made of: entities of every kind the function
\* knows, one it does not know, and the rest of an entity without its
\* ampersand
DecodePieces ==
  {Entity("amp"), Entity("AMP"), Entity("lt"), Entity("nbsp"), Entity("#38"),
   Entity("#x26"), Entity("#0"), Entity("bogus"), EntityTail("amp"),
   EntityTail("lt"), EntityTail("#38"), EntityTail("#x26"), Word("a")}

DecodeTexts == UNION { [1..n -> DecodePieces] : n \in 0..MaxDecodeLen }

DecodeInit ==
  /\ callOp = "decodeHTMLEntities"
  /\ callArgs \in DecodeTexts
  /\ callRes = <<>>
  /\ DedupeIdle
  /\ SimIdle
  /\ CleanIdle
  /\ CoreIdle
  /\ FetchIdle

\* decodeHTMLEntities(text), and decodeHTMLEntities of what it returned
DecodeTwice ==
  /\ callOp = "decodeHTMLEntities"
  /\ callRes = <<>>
  /\ callRes' = Only({ <<[once |-> t, twice |-> decodeHTMLEntities(t)]>> :
                       t \in {decodeHTMLEntities(callArgs)} })
  /\ UNCHANGED <<callOp, callArgs>>
  /\ UNCHANGED <<simVars, dedupeVars, cleanVars, coreVars, fetchVars>>

DecodeNext == DecodeTwice

SpecDecode == DecodeInit /\ [][DecodeNext]_vars

\* C12: decodeHTMLEntities is idempotent: decoding a text it has decoded
\* returns that text, also when the text holds an encoded ampersand followed
\* by the rest of an entity or a numeric reference of an ampersand
C12_DecodeTwiceIsDecodeOnce ==
  callOp = "decodeHTMLEntities" /\ callRes # <<>>
    => callRes[1].twice = callRes[1].once

\* ------------------------------------------------------------------------
\* The operations of the core applied one after another
\* ------------------------------------------------------------------------
MaxTrail == 3

\* the characters of a string
chars(string) == [k \in 1..Len(string) |-> SubSeq(string, k, k)]

\* the characters of one piece of a text
spellToken(t) ==
  CASE t.kind = "word" -> chars(t.w)
    [] t.kind = "num" -> chars(t.text)
    [] t.kind = "sym" -> <<t.s>>
    [] t.kind = "prose" -> [k \in 1..t.len |-> "x"]
    [] t.kind = "entity" -> <<"&">> \o chars(t.name) \o <<";">>
    [] t.kind = "tail" -> chars(t.name) \o <<";">>
    [] OTHER -> <<>>

\* the characters of a text, one blank between its pieces
RECURSIVE spell(_)
spell(text) ==
  IF text = NullText THEN NullString
  ELSE IF text = UndefinedText THEN UndefinedString
  ELSE IF Len(text) = 0 THEN <<>>
  ELSE IF Len(text) = 1 THEN spellToken(text[1])
  ELSE spellToken(text[1]) \o <<" ">> \o spell(Tail(text))

\* the records with title and company as the strings getDedupeKey reads
spelled(js) ==
  [k \in 1..Len(js) |->
     [js[k] EXCEPT !.title = spell(js[k].title),
                   !.company = spell(js[k].company)]]

CoreJob(id, platform, external_id, company, description, salary, stack, tags, posted, raw) ==
  [id |-> id, platform |-> platform, external_id |-> external_id,
   title |-> <<Word("Dev")>>, company |-> company,
   description |-> description,
   salary_min |-> salary[1], salary_max |-> salary[2],
   salary_currency |-> salary[3], salary_type |-> salary[4],
   contract_type |-> NULL, experience_level |-> NULL,
   location |-> NullText, tech_stack |-> stack, tags |-> tags,
   posted_at |-> posted, raw |-> raw]

NoSalaryFields == <<NullNumber, NullNumber, NULL, NULL>>

CoreJobHn ==
  CoreJob("hn:1", "hn", "1", <<Word("Acme")>>,
          <<Tag("p", FALSE), Sym("$"), Num("100"), Word("k"), Sym("-"),
            Sym("$"), Num("150"), Word("k"), Word("per"), Word("year"),
            Tag("p", TRUE)>>,
          NoSalaryFields, <<>>, <<"remote">>, 1, "payload of hn:1")

CoreJobWwr ==
  CoreJob("wwr:7", "wwr", "7", <<Word("Acme"), Word("Inc")>>, NullText,
          <<80000, 120000, "USD", "yearly">>, <<"python", "sql", "go">>,
          <<"remote", "python">>, 2, "payload of wwr:7")

CoreJobJobicy ==
  CoreJob("jobicy:3", "jobicy", "3", <<Word("Zeta")>>,
          <<Word("Senior"), Word("Rust"), Entity("amp"), Word("Go")>>,
          NoSalaryFields, <<"rust">>, <<>>, NullNumber, "payload of jobicy:3")

CoreJobs == {CoreJobHn, CoreJobWwr, CoreJobJobicy}

\* two or three records, no record twice
CorePools ==
  { p \in [1..2 -> CoreJobs] \cup [1..3 -> CoreJobs] :
      \A k, l \in DOMAIN p : k # l => p[k] # p[l] }

CoreInit ==
  /\ pool \in CorePools
  /\ origin = pool
  /\ trail = <<>>
  /\ DedupeIdle
  /\ SimIdle
  /\ CleanIdle
  /\ CallIdle
  /\ FetchIdle

\* pool[k] = cleanJobListing(pool[k])
CoreClean ==
  /\ Len(trail) < MaxTrail
  /\ \E k \in 1..Len(pool) :
       /\ ~cleanJobListingThrows(pool[k])
       /\ pool' = [pool EXCEPT ![k] = cleanJobListing(pool[k])]
  /\ trail' = Append(trail, "cleanJobListing")
  /\ UNCHANGED origin
  /\ UNCHANGED <<simVars, dedupeVars, cleanVars, callVars, fetchVars>>

\* pool[k] = mergeJobData(pool[k], pool[l])
CoreMerge ==
  /\ Len(trail) < MaxTrail
  /\ \E k, l \in 1..Len(pool) :
       /\ k # l
       /\ ~mergeJobDataThrows(pool[k], pool[l])
       /\ pool' = [pool EXCEPT ![k] = mergeJobData(pool[k], pool[l])]
  /\ trail' = Append(trail, "mergeJobData")
  /\ UNCHANGED origin
  /\ UNCHANGED <<simVars, dedupeVars, cleanVars, callVars, fetchVars>>

\* pool = deduplicateJobs(pool).unique
CoreDedupe ==
  /\ Len(trail) < MaxTrail
  /\ \E r \in {deduplicateJobs(spelled(pool))} :
       /\ ~r.thrown
       /\ pool' = [n \in 1..Len(r.unique) |-> pool[r.unique[n]]]
       /\ origin' = [n \in 1..Len(r.unique) |-> origin[r.unique[n]]]
  /\ trail' = Append(trail, "deduplicateJobs")
  /\ UNCHANGED <<simVars, dedupeVars, cleanVars, callVars, fetchVars>>

CoreNext ==
  \/ CoreClean
  \/ CoreMerge
  \/ CoreDedupe

SpecCore == CoreInit /\ [][CoreNext]_vars

\* the fields that say which record it is, and the payload it was made from
IdentityFields == {"id", "platform", "external_id", "raw"}

\* C13: after any sequence of cleanJobListing, deduplicateJobs and
\* mergeJobData, id, platform, external_id and raw of a record are those of
\* the record it was at first (for mergeJobData, of the primary)
C13_IdentityAndRawKept ==
  \A k \in 1..Len(pool) :
    \A field \in IdentityFields : pool[k][field] = origin[k][field]

\* all three operations were applied and the first record is no longer what
\* it was
C13_Witness ==
  /\ Range(trail) = {"cleanJobListing", "deduplicateJobs", "mergeJobData"}
  /\ Len(pool) > 0
  /\ pool[1] # origin[1]

\* ------------------------------------------------------------------------
\* mergeJobData on its own
\* ------------------------------------------------------------------------

\* null, empty, two of the same length, a longer one
MergeDescriptions ==
  {NullText, <<>>, <<Prose(5)>>, <<Word("hello")>>, <<Prose(9)>>}

\* salary_min, salary_max, salary_currency, salary_type, experience_level,
\* contract_type: none set, all set, some set
MergeDetails ==
  { <<NullNumber, NullNumber, NULL, NULL, NULL, NULL>>,
    <<80000, 120000, "USD", "yearly", "senior", "full-time">>,
    <<NullNumber, 90000, "EUR", NULL, NULL, "contract">>,
    <<40, NullNumber, NULL, "hourly", "mid", NULL>>,
    <<150000, NullNumber, "USD", "yearly", NULL, NULL>> }

\* tech_stack and tags
MergeLists ==
  { <<<<>>, <<>>>>,
    <<<<"go", "rust">>, <<"remote">>>>,
    <<<<"rust", "sql", "rust">>, <<"python", "remote">>>> }

NoDetails == <<NullNumber, NullNumber, NULL, NULL, NULL, NULL>>

MergeJob(id, description, details, lists) ==
  [id |-> id, platform |-> "hn", external_id |-> id,
   title |-> <<Word("Dev"), Word(id)>>, company |-> <<Word("Acme")>>,
   description |-> description,
   salary_min |-> details[1], salary_max |-> details[2],
   salary_currency |-> details[3], salary_type |-> details[4],
   experience_level |-> details[5], contract_type |-> details[6],
   location |-> <<Word(id)>>, tech_stack |-> lists[1], tags |-> lists[2],
   posted_at |-> NullNumber, raw |-> id]

MergeJobs(id) ==
  { MergeJob(id, description, details, lists) :
      description \in MergeDescriptions, details \in MergeDetails,
      lists \in MergeLists }

MergeInit ==
  /\ callOp = "mergeJobData"
  /\ callArgs \in MergeJobs("primary") \X MergeJobs("secondary")
  /\ callRes = <<>>
  /\ DedupeIdle
  /\ SimIdle
  /\ CleanIdle
  /\ CoreIdle
  /\ FetchIdle

\* mergeJobData(primary, secondary)
MergeCall ==
  /\ callOp = "mergeJobData"
  /\ callRes = <<>>
  /\ ~mergeJobDataThrows(callArgs[1], callArgs[2])
  /\ callRes' = <<mergeJobData(callArgs[1], callArgs[2])>>
  /\ UNCHANGED <<callOp, callArgs>>
  /\ UNCHANGED <<simVars, dedupeVars, cleanVars, coreVars, fetchVars>>

MergeNext == MergeCall

SpecMerge == MergeInit /\ [][MergeNext]_vars

merged == callOp = "mergeJobData" /\ callRes # <<>>

FilledNumbers == {"salary_min", "salary_max"}

FilledNames ==
  {"salary_currency", "salary_type", "experience_level", "contract_type"}

\* the fields mergeJobData does not name
SpreadFields ==
  {"id", "platform", "external_id", "title", "company", "location",
   "posted_at", "raw"}

\* the description the merge policy asks for
longerDescription(a, b) ==
  IF a = NullText THEN b
  ELSE IF b = NullText THEN a
  ELSE IF TextLength(a) >= TextLength(b) THEN a ELSE b

\* C14: mergeJobData(primary, secondary) has the primary's salary_min,
\* salary_max, salary_currency, salary_type, experience_level and
\* contract_type where they are non-null and the secondary's otherwise; its
\* description is the longer of the two non-null descriptions (the primary's
\* on equal length) and is non-null whenever either description is
\* non-null; every field the merge does not combine is the primary's
C14_MergeKeepsPrimary ==
  merged =>
    /\ \A f \in FilledNumbers :
         callRes[1][f] = orElse(callArgs[1][f], callArgs[2][f], NullNumber)
    /\ \A f \in FilledNames :
         callRes[1][f] = orElse(callArgs[1][f], callArgs[2][f], NULL)
    /\ callRes[1].description
         = longerDescription(callArgs[1].description, callArgs[2].description)
    /\ \A f \in SpreadFields : callRes[1][f] = callArgs[1][f]

SalaryFields ==
  {"salary_min", "salary_max", "salary_currency", "salary_type"}

\* the null of a salary field
nullOf(field) ==
  IF field \in {"salary_min", "salary_max"} THEN NullNumber ELSE NULL

\* salary_min <= salary_max when both are there
BoundsInOrder(job) ==
  (job.salary_min # NullNumber /\ job.salary_max # NullNumber)
    => job.salary_min <= job.salary_max

\* the four salary fields of the record are those of the other record
SalaryOf(job, other) == \A f \in SalaryFields : job[f] = other[f]

\* the salary fields of the record are all null or all set
SalaryWhole(job) ==
  \/ \A f \in SalaryFields : job[f] = nullOf(f)
  \/ \A f \in SalaryFields : job[f] # nullOf(f)

\* C29: mergeJobData keeps the salary coherent: when primary and secondary
\* each have salary_min <= salary_max where both are there, so has the
\* merged record, and its salary_currency and salary_type are from the
\* record its bounds are from
C29_MergedSalaryCoherent ==
  (merged /\ BoundsInOrder(callArgs[1]) /\ BoundsInOrder(callArgs[2])) =>
    /\ BoundsInOrder(callRes[1])
    /\ SalaryOf(callRes[1], callArgs[1]) \/ SalaryOf(callRes[1], callArgs[2])

\* C29 as it holds: each salary field is the primary's unless that is null,
\* and the secondary's then; when the salary fields of the primary are all
\* null or all set, the four salary fields of the merged record are those
\* of one of the two records, and salary_min <= salary_max if that holds in
\* both
C29_MergedSalaryCoherentIfWhole ==
  (merged /\ BoundsInOrder(callArgs[1]) /\ BoundsInOrder(callArgs[2])) =>
    /\ \A f \in SalaryFields :
         callRes[1][f] = orElse(callArgs[1][f], callArgs[2][f], nullOf(f))
    /\ SalaryWhole(callArgs[1]) =>
         /\ BoundsInOrder(callRes[1])
         /\ SalaryOf(callRes[1], callArgs[1]) \/ SalaryOf(callRes[1], callArgs[2])

\* a primary without a salary is merged with a secondary that has a range
C29_Witness ==
  /\ merged
  /\ \A f \in SalaryFields : callArgs[1][f] = nullOf(f)
  /\ callArgs[2].salary_min = 80000
  /\ callRes[1].salary_min = 80000
  /\ callRes[1].salary_max = 120000
  /\ callRes[1].salary_currency = "USD"

\* ------------------------------------------------------------------------
\* The lists of a record under mergeJobData and cleanJobListing
\* ------------------------------------------------------------------------

\* tech_stack and tags of a record: empty, entries the other record or the
\* description also has, an entry that is there twice, an entry written
\* with a capital
ListsInputs ==
  { <<<<>>, <<>>>>,
    <<<<"go", "rust">>, <<"remote">>>>,
    <<<<"rust", "sql", "rust">>, <<"python", "remote">>>>,
    <<<<"Python", "sql">>, <<"remote", "remote">>>> }

ListsDescriptions ==
  { NullText,
    <<Word("Senior"), Word("Python"), Word("and"), Word("Rust"),
      Word("developer")>> }

ListsStacks == { lists[1] : lists \in ListsInputs } \cup {UndefinedList}

ListsInit ==
  /\ callOp = "mergeJobData"
  /\ \E a \in ListsInputs, b \in ListsInputs :
       callArgs = <<MergeJob("primary", NullText, NoDetails, a),
                    MergeJob("secondary", NullText, NoDetails, b)>>
  /\ callRes = <<>>
  /\ \E description \in ListsDescriptions, stack \in ListsStacks :
       cleanIn = CleanJob(<<Word("Go"), Word("Developer")>>, description,
                          NoSalaryFields, NULL, NULL, stack, NullText)
  /\ cleanOut = <<>>
  /\ cleanTwice = <<>>
  /\ cleanPc = "ready"
  /\ DedupeIdle
  /\ SimIdle
  /\ CoreIdle
  /\ FetchIdle

ListsNext ==
  \/ MergeCall
  \/ CleanJobListing
  \/ CleanJobListingThrows
  \/ CleanAgain

SpecLists == ListsInit /\ [][ListsNext]_vars

Entries(list) == Range(list)

NoEntryTwice(list) ==
  \A k, l \in 1..Len(list) : k # l => list[k] # list[l]

\* the union of two lists as a list: every entry of either, none twice
IsUnion(list, a, b) ==
  /\ Entries(list) = Entries(a) \cup Entries(b)
  /\ NoEntryTwice(list)

textOrEmpty(text) == IF Truthy(text) THEN text ELSE <<>>

\* what extractTechStack detects in the title and description returned
detectedIn(job) ==
  extractTechStack(textOrEmpty(job.title) \o textOrEmpty(job.description))

\* C15: tech_stack and tags of mergeJobData(primary, secondary) hold every
\* entry of either input list and no entry twice, and so does the tech_stack
\* of cleanJobListing(job) for the entries the job had and the detected ones
C15_ListsAreUnions ==
  /\ merged =>
       /\ IsUnion(callRes[1].tech_stack, callArgs[1].tech_stack,
                  callArgs[2].tech_stack)
       /\ IsUnion(callRes[1].tags, callArgs[1].tags, callArgs[2].tags)
  /\ cleanPc \in {"done", "again"} =>
       IsUnion(cleanOut.tech_stack, cleanIn.tech_stack, detectedIn(cleanOut))

\* both were applied to lists that share entries: the two records share
\* "rust" and "remote", the job has "rust", which its description names too
C15_Witness ==
  /\ merged
  /\ callArgs[1].tech_stack = <<"go", "rust">>
  /\ callArgs[2].tech_stack = <<"rust", "sql", "rust">>
  /\ callRes[1].tech_stack = <<"go", "rust", "sql">>
  /\ callRes[1].tags = <<"remote", "python">>
  /\ cleanPc = "done"
  /\ cleanIn.tech_stack = <<"go", "rust">>
  /\ cleanOut.tech_stack = <<"go", "rust", "python">>

\* ------------------------------------------------------------------------
\* detectExperienceLevel on its own
\* ------------------------------------------------------------------------
MaxPhrases == 3

\* phrases for every level, one that is read as two levels, one for none
LevelPhrases ==
  { <<Word("Team"), Word("Lead")>>,
    <<Word("Senior")>>,
    <<Num("5"), Sym("+"), Word("years")>>,
    <<Word("mid"), Sym("-"), Word("level")>>,
    <<Num("3"), Sym("-"), Num("5"), Word("years")>>,
    <<Word("Junior")>>,
    <<Num("0"), Sym("-"), Num("2"), Word("years")>>,
    <<Word("developer")>> }

RECURSIVE joined(_)
joined(phrases) ==
  IF Len(phrases) = 0 THEN <<>> ELSE Head(phrases) \o joined(Tail(phrases))

LevelTexts ==
  { joined(phrases) :
      phrases \in UNION { [1..n -> LevelPhrases] : n \in 0..MaxPhrases } }

LevelInit ==
  /\ callOp = "detectExperienceLevel"
  /\ callArgs \in LevelTexts
  /\ callRes = <<>>
  /\ DedupeIdle
  /\ SimIdle
  /\ CleanIdle
  /\ CoreIdle
  /\ FetchIdle

\* detectExperienceLevel(text)
LevelCall ==
  /\ callOp = "detectExperienceLevel"
  /\ callRes = <<>>
  /\ callRes' = <<detectExperienceLevel(callArgs)>>
  /\ UNCHANGED <<callOp, callArgs>>
  /\ UNCHANGED <<simVars, dedupeVars, cleanVars, coreVars, fetchVars>>

LevelNext == LevelCall

SpecLevel == LevelInit /\ [][LevelNext]_vars

\* the order of precedence
LevelOrder == <<"lead", "senior", "mid", "junior">>

levelDetected == callOp = "detectExperienceLevel" /\ callRes # <<>>

\* the levels whose pattern matches the text, as places in the order
matching(text) ==
  { n \in 1..Len(LevelOrder) : EXPERIENCE_PATTERNS(LevelOrder[n], text) }

\* C16: detectExperienceLevel returns the first level in the order lead,
\* senior, mid, junior whose pattern matches, and null when none matches; a
\* text with a 3-5 years range and nothing of a lead yields senior, a text
\* that matches the lead pattern yields lead whatever else it matches
C16_FirstLevelInOrder ==
  levelDetected =>
    /\ matching(callArgs) = {} => callRes[1] = NULL
    /\ matching(callArgs) # {} =>
         /\ callRes[1] \in { LevelOrder[n] : n \in matching(callArgs) }
         /\ \A n \in matching(callArgs) :
              \A k \in 1..Len(LevelOrder) :
                LevelOrder[k] = callRes[1] => k <= n
    /\ hasYearRange(callArgs, "3", "5") /\ ~hasWord(callArgs, {"lead"})
         => callRes[1] = "senior"
    /\ hasWord(callArgs, {"lead"}) => callRes[1] = "lead"

\* a range of 3-5 years next to a junior phrase, nothing of a lead: senior
C16_Witness ==
  /\ levelDetected
  /\ matching(callArgs) = {2, 3, 4}
  /\ hasYearRange(callArgs, "3", "5")
  /\ ~hasWord(callArgs, {"senior"})
  /\ callRes[1] = "senior"

\* ------------------------------------------------------------------------
\* extractSalaryFromText on its own
\* ------------------------------------------------------------------------
MaxSalaryPhrases == 2

\* a phrase for every pattern, phrases whose bounds are out of range, bounds
\* the wrong way round, a numeral without digits, and no salary at all
SalaryPhrases ==
  { <<Sym("$"), Num("100"), Word("k"), Sym("-"), Sym("$"), Num("150"),
      Word("k"), Word("per"), Word("year")>>,
    <<Sym("$"), Num("120"), Word("k"), Sym("+")>>,
    <<Word("EUR"), Num("80.000"), Sym("-"), Num("120.000")>>,
    <<Word("GBP"), Num("70,000"), Word("to"), Num("50,000")>>,
    <<Sym("$"), Num("50"), Sym("/"), Word("hr")>>,
    <<Sym("$"), Num("50"), Sym("-"), Num("75"), Sym("/"), Word("hour")>>,
    <<Sym("$"), Num("99,999,999"), Sym("-"), Num("5")>>,
    <<Sym("$"), Num("20,000,000"), Sym("+")>>,
    <<Sym("$"), Num("30,000,000"), Word("per"), Word("hour")>>,
    <<Sym("$"), Num(","), Sym("+")>>,
    <<Sym("$"), Num("100,000"), Word("to"), Num(","), Word("say")>>,
    <<Word("competitive"), Word("pay")>> }

SalaryTexts ==
  { joined(phrases) :
      phrases \in UNION { [1..n -> SalaryPhrases] : n \in 0..MaxSalaryPhrases } }

SalaryInit ==
  /\ callOp = "extractSalaryFromText"
  /\ callArgs \in SalaryTexts
  /\ callRes = <<>>
  /\ DedupeIdle
  /\ SimIdle
  /\ CleanIdle
  /\ CoreIdle
  /\ FetchIdle

\* extractSalaryFromText(text)
SalaryCall ==
  /\ callOp = "extractSalaryFromText"
  /\ callRes = <<>>
  /\ callRes' = <<extractSalaryFromText(callArgs)>>
  /\ UNCHANGED <<callOp, callArgs>>
  /\ UNCHANGED <<simVars, dedupeVars, cleanVars, coreVars, fetchVars>>

SalaryNext == SalaryCall

SpecSalary == SalaryInit /\ [][SalaryNext]_vars

salaryExtracted == callOp = "extractSalaryFromText" /\ callRes # <<>>

\* what the handler of the n-th pattern makes of the pattern's first match
firstResult(n, text) == handler(n, execFrom(n, text, 1))

\* a bound below 0 or above 10,000,000
OutOfRange(v) == v # NullNumber /\ v # NaN /\ (v < 0 \/ v > MaxSalary)

\* the n-th pattern matches and its first match passes the validation
qualifies(n, text) ==
  /\ execFrom(n, text, 1).ok
  /\ ~OutOfRange(firstResult(n, text).min)
  /\ ~OutOfRange(firstResult(n, text).max)

\* the patterns that match the text
matches(text) == { n \in 1..SalaryPatternCount : execFrom(n, text, 1).ok }

\* the patterns that qualify
qualifying(text) == { n \in 1..SalaryPatternCount : qualifies(n, text) }

\* the earliest of a set of patterns
earliest(ns) == CHOOSE n \in ns : \A other \in ns : n <= other

\* the two bounds of a result as a set
Bounds(r) == {r.min, r.max}

\* C17: extractSalaryFromText returns the result of the earliest pattern in
\* the order of the table whose first match passes the validation; a pattern
\* whose first match gives a bound below 0 or above 10,000,000 is passed
\* over and the next is tried; when no pattern qualifies, or the text is
\* empty, the result is null
C17_EarliestQualifyingPattern ==
  salaryExtracted =>
    IF qualifying(callArgs) = {} THEN ~callRes[1].found
    ELSE LET r == firstResult(earliest(qualifying(callArgs)), callArgs)
         IN /\ callRes[1].found
            /\ Bounds(callRes[1]) = Bounds(r)
            /\ callRes[1].currency = r.currency
            /\ callRes[1].type = r.type

\* the first pattern that matches is passed over for a bound out of range,
\* and a later one gives the result
C17_Witness ==
  /\ salaryExtracted
  /\ matches(callArgs) # {}
  /\ qualifying(callArgs) # {}
  /\ earliest(matches(callArgs)) < earliest(qualifying(callArgs))
  /\ callRes[1].found

\* a number within [0, 10,000,000]
WithinRange(v) == v # NaN /\ v # NullNumber /\ v >= 0 /\ v <= MaxSalary

\* C24: every result of extractSalaryFromText that is not null has its min,
\* and its max when there is one, within [0, 10,000,000], and min <= max
\* when both are there
C24_BoundsWithinRange ==
  (salaryExtracted /\ callRes[1].found) =>
    /\ WithinRange(callRes[1].min)
    /\ callRes[1].max # NullNumber =>
         /\ WithinRange(callRes[1].max)
         /\ callRes[1].min <= callRes[1].max

\* the same for the results whose bounds are numbers
C24_NumbersWithinRange ==
  (salaryExtracted /\ callRes[1].found
     /\ callRes[1].min # NaN /\ callRes[1].max # NaN) =>
    /\ WithinRange(callRes[1].min)
    /\ callRes[1].max # NullNumber =>
         /\ WithinRange(callRes[1].max)
         /\ callRes[1].min <= callRes[1].max

\* ------------------------------------------------------------------------
\* cleanJobListings: a batch of records
\* ------------------------------------------------------------------------
MaxCleanBatch == 3

\* jobs.map((job) => cleanJobListing(job)) throws when one call throws
cleanJobListingsThrows(js) ==
  \E k \in 1..Len(js) : cleanJobListingThrows(js[k])

cleanJobListings(js) == [k \in 1..Len(js) |-> cleanJobListing(js[k])]

\* records of a batch: complete ones and one whose tech_stack is missing
BatchJobs ==
  { CleanJob(<<Word("Senior"), Word("Engineer")>>, description,
             NoSalaryFields, NULL, NULL, stack, NullText) :
      description \in { NullText,
                        <<Sym("$"), Num("50"), Sym("/"), Word("hr")>>,
                        <<Tag("p", FALSE), Word("Lead"), Word("Rust"),
                          Tag("p", TRUE)>> },
      stack \in { <<"python">>, UndefinedList } }

BatchInit ==
  /\ callOp = "cleanJobListings"
  /\ \E n \in 1..MaxCleanBatch : callArgs \in [1..n -> BatchJobs]
  /\ callRes = <<>>
  /\ DedupeIdle
  /\ SimIdle
  /\ CleanIdle
  /\ CoreIdle
  /\ FetchIdle

\* cleanJobListings(jobs) returns the cleaned records
CleanJobListings ==
  /\ callOp = "cleanJobListings"
  /\ callRes = <<>>
  /\ ~cleanJobListingsThrows(callArgs)
  /\ callRes' = <<[thrown |-> FALSE, cleaned |-> cleanJobListings(callArgs)]>>
  /\ UNCHANGED <<callOp, callArgs>>
  /\ UNCHANGED <<simVars, dedupeVars, cleanVars, coreVars, fetchVars>>

\* the exception of one cleanJobListing leaves map and cleanJobListings:
\* nothing is returned
CleanJobListingsThrows ==
  /\ callOp = "cleanJobListings"
  /\ callRes = <<>>
  /\ cleanJobListingsThrows(callArgs)
  /\ callRes' = <<[thrown |-> TRUE, cleaned |-> <<>>]>>
  /\ UNCHANGED <<callOp, callArgs>>
  /\ UNCHANGED <<simVars, dedupeVars, cleanVars, coreVars, fetchVars>>

BatchNext ==
  \/ CleanJobListings
  \/ CleanJobListingsThrows

SpecBatch == BatchInit /\ [][BatchNext]_vars

\* C18: cleanJobListings does not give up a batch for one record: a record
\* whose enrichment throws is passed through as it was, every other record
\* is enriched, and the output has one record for each input record in the
\* same order
C18_BatchSurvivesOneRecord ==
  callOp = "cleanJobListings" /\ callRes # <<>> =>
    /\ ~callRes[1].thrown
    /\ Len(callRes[1].cleaned) = Len(callArgs)
    /\ \A k \in 1..Len(callArgs) :
         callRes[1].cleaned[k] = IF cleanJobListingThrows(callArgs[k])
                                 THEN callArgs[k]
                                 ELSE cleanJobListing(callArgs[k])

\* ------------------------------------------------------------------------
\* cli/pipeline.ts, main: the jobs written after deduplication
\* ------------------------------------------------------------------------
MaxPipelineBatch == 3

\* mutant: the dates are subtracted the other way round
byPostedAt_Ascending(a, b) ==
  LET dateA == IF a.posted_at # NullNumber THEN a.posted_at ELSE 0
      dateB == IF b.posted_at # NullNumber THEN b.posted_at ELSE 0
  IN dateA - dateB

\* the comparator of the sort: negative when a goes before b
byPostedAt(a, b) ==
  LET dateA == IF a.posted_at # NullNumber THEN a.posted_at ELSE 0
      dateB == IF b.posted_at # NullNumber THEN b.posted_at ELSE 0
  IN dateB - dateA

\* Array.prototype.sort is stable: x goes after every record that does not
\* compare greater than it
RECURSIVE insertByDate(_, _)
insertByDate(sorted, x) ==
  IF Len(sorted) = 0 THEN <<x>>
  ELSE IF byPostedAt(sorted[1], x) <= 0
       THEN <<sorted[1]>> \o insertByDate(Tail(sorted), x)
       ELSE <<x>> \o sorted

\* dedupeResult.unique.sort(...)
RECURSIVE sortByDate(_)
sortByDate(list) ==
  IF Len(list) = 0 THEN <<>>
  ELSE insertByDate(sortByDate(SubSeq(list, 1, Len(list) - 1)),
                    list[Len(list)])

\* the records of result.unique
uniqueJobs(js) ==
  Only({ [n \in 1..Len(r.unique) |-> js[r.unique[n]]] :
         r \in {deduplicateJobs(js)} })

\* company and title of the cleaned jobs: two that are one job, two others
PipelineKeys == {KeyPlain, KeyTitleAB, KeyTitleAC, KeyCompanyB}

\* posted_at: null, or the time of a date
PipelineDates == {NullNumber, 1, 2}

PipelineJob(id, key, posted) ==
  MakeJob(id, key, Rank("remotive", NullNumber, NullText, <<>>, posted))

PipelineBatches(n) ==
  { [k \in 1..n |-> PipelineJob(k, f[k][1], f[k][2])] :
      f \in [1..n -> PipelineKeys \X PipelineDates] }

PipelineInit ==
  /\ callOp = "main"
  /\ \E n \in 1..MaxPipelineBatch : callArgs \in PipelineBatches(n)
  /\ callRes = <<>>
  /\ DedupeIdle
  /\ SimIdle
  /\ CleanIdle
  /\ CoreIdle
  /\ FetchIdle

\* steps 3 of main: deduplicateJobs(cleanedJobs), the sort of its unique
\* jobs, and jobs.json written from the sorted array
PipelineMain ==
  /\ callOp = "main"
  /\ callRes = <<>>
  /\ ~deduplicateJobs(callArgs).thrown
  /\ callRes' = <<sortByDate(uniqueJobs(callArgs))>>
  /\ UNCHANGED <<callOp, callArgs>>
  /\ UNCHANGED <<simVars, dedupeVars, cleanVars, coreVars, fetchVars>>

PipelineNext == PipelineMain

SpecPipeline == PipelineInit /\ [][PipelineNext]_vars

\* jobs.json is written
written == callOp = "main" /\ callRes # <<>>

\* C19: the jobs written after deduplication are ordered by posted_at, the
\* most recent first: of two adjacent records with a posted_at the first is
\* at least as recent as the second, and every record without posted_at
\* comes after every record that has one
C19_WrittenByDateNullsLast ==
  written =>
    \A k, l \in 1..Len(callRes[1]) :
      k < l =>
        /\ callRes[1][k].posted_at = NullNumber
             => callRes[1][l].posted_at = NullNumber
        /\ /\ l = k + 1
           /\ callRes[1][l].posted_at # NullNumber
           => callRes[1][k].posted_at >= callRes[1][l].posted_at

\* three jobs are written that came in another order: the one without
\* posted_at first, the oldest before the most recent
C19_Witness ==
  /\ written
  /\ Len(callArgs) = 3
  /\ Len(callRes[1]) = 3
  /\ callArgs[1].posted_at = NullNumber
  /\ callArgs[2].posted_at = 1
  /\ callArgs[3].posted_at = 2
  /\ callRes[1] = <<callArgs[3], callArgs[2], callArgs[1]>>

\* ------------------------------------------------------------------------
\* deduplicateJobs on a batch and on the same batch in another order
\* ------------------------------------------------------------------------
MaxPermuted == 3

\* keys that are the same job, keys that are close to one of them and not
\* to each other, and a key of another company
PermutedKeys ==
  {KeyPlain, KeySameNormalized, KeyTitleAB, KeyTitleAC, KeyCompanyB}

Orders(n) ==
  { f \in [1..n -> 1..n] : \A k, l \in 1..n : k # l => f[k] # f[l] }

permuted(js, f) == [k \in 1..Len(js) |-> js[f[k]]]

PermutedInit ==
  /\ callOp = "deduplicateJobs"
  /\ \E n \in 1..MaxPermuted :
       \E keys \in [1..n -> PermutedKeys], f \in Orders(n) :
         callArgs = <<[k \in 1..n |-> MakeJob(k, keys[k], RankHnBare)], f>>
  /\ callRes = <<>>
  /\ DedupeIdle
  /\ SimIdle
  /\ CleanIdle
  /\ CoreIdle
  /\ FetchIdle

\* the clusters of a result as sets of ids
partition(js, r) ==
  { { js[r.clusters[n][k]].id : k \in 1..Len(r.clusters[n]) } :
      n \in 1..Len(r.clusters) }

\* deduplicateJobs(jobs) and deduplicateJobs of the jobs in the other order
DedupeBothOrders ==
  /\ callOp = "deduplicateJobs"
  /\ callRes = <<>>
  /\ callRes' =
       Only({ <<[clusters |-> partition(callArgs[1], a),
                 totalUnique |-> Len(a.unique)],
                [clusters |-> partition(js, b),
                 totalUnique |-> Len(b.unique)]>> :
              a \in {deduplicateJobs(callArgs[1])},
              b \in {deduplicateJobs(permuted(callArgs[1], callArgs[2]))},
              js \in {permuted(callArgs[1], callArgs[2])} })
  /\ UNCHANGED <<callOp, callArgs>>
  /\ UNCHANGED <<simVars, dedupeVars, cleanVars, coreVars, fetchVars>>

PermutedNext == DedupeBothOrders

SpecPermuted == PermutedInit /\ [][PermutedNext]_vars

bothOrdersDone == callOp = "deduplicateJobs" /\ callRes # <<>>

\* C20: the result of deduplicateJobs does not depend on the order of the
\* input: two permutations of a batch give the same partition into clusters
\* and the same number of unique records
C20_OrderIndependent ==
  bothOrdersDone =>
    /\ callRes[1].clusters = callRes[2].clusters
    /\ callRes[1].totalUnique = callRes[2].totalUnique

similarJobs(a, b) == areSimilar(getDedupeKey(a), getDedupeKey(b))

\* among the jobs of the batch, being similar is symmetric and transitive
SimilarityIsEquivalence(js) ==
  \A a, b, c \in 1..Len(js) :
    /\ similarJobs(js[a], js[b]) = similarJobs(js[b], js[a])
    /\ a # c /\ similarJobs(js[a], js[b]) /\ similarJobs(js[b], js[c])
         => similarJobs(js[a], js[c])

\* C20 as it holds: when being similar is symmetric and transitive among the
\* jobs of a batch, two permutations of the batch give the same partition
\* into clusters and the same number of unique records
C20_OrderIndependentIfTransitive ==
  bothOrdersDone /\ SimilarityIsEquivalence(callArgs[1]) =>
    /\ callRes[1].clusters = callRes[2].clusters
    /\ callRes[1].totalUnique = callRes[2].totalUnique

\* three jobs, two of them one job, in an order that puts the third first
C20_Witness ==
  /\ bothOrdersDone
  /\ Len(callArgs[1]) = 3
  /\ SimilarityIsEquivalence(callArgs[1])
  /\ callArgs[2] = <<3, 1, 2>>
  /\ callRes[1].clusters = {{1, 2}, {3}}
  /\ callRes[2].totalUnique = 2

\* ------------------------------------------------------------------------
\* analytics/generate.ts: generateAnalytics
\* ------------------------------------------------------------------------
MaxAnalyticsBatch == 2

\* 40 hours * 52 weeks
HoursPerYear == 2080

\* yearlySalary: salary_min, times 2080 when the type is hourly and the
\* number is truthy (not null, not 0, not NaN)
yearlySalary(job) ==
  IF /\ job.salary_type = "hourly"
     /\ job.salary_min \notin {NullNumber, NaN, 0}
  THEN job.salary_min * HoursPerYear
  ELSE job.salary_min

\* the key of bySalaryRange that is incremented for the job: every
\* comparison with NaN is false, which leaves the last branch
salaryRange(job) ==
  LET y == yearlySalary(job)
  IN IF y = NullNumber THEN "unknown"
     ELSE IF y # NaN /\ y < 50000 THEN "under50k"
     ELSE IF y # NaN /\ y < 100000 THEN "50k-100k"
     ELSE IF y # NaN /\ y < 150000 THEN "100k-150k"
     ELSE IF y # NaN /\ y < 200000 THEN "150k-200k"
     ELSE "over200k"

SalaryRanges ==
  {"under50k", "50k-100k", "100k-150k", "150k-200k", "over200k", "unknown"}

\* how many jobs of the array satisfy the test given as the set of places
countOf(places) == Cardinality(places)

\* the counters generateAnalytics returns
generateAnalytics(js) ==
  [totalJobs |-> Len(js),
   bySource |->
     [p \in { js[k].platform : k \in 1..Len(js) } |->
        countOf({ k \in 1..Len(js) : js[k].platform = p })],
   byContractType |->
     [c \in { js[k].contract_type : k \in 1..Len(js) } \ {NULL} |->
        countOf({ k \in 1..Len(js) : js[k].contract_type = c })],
   bySalaryRange |->
     [r \in SalaryRanges |->
        countOf({ k \in 1..Len(js) : salaryRange(js[k]) = r })]]

\* salary_min and salary_type of a job: no salary, a number that did not
\* parse, hourly and yearly figures at and next to the limits of the ranges
AnalyticsSalaries ==
  { <<NullNumber, NULL>>, <<NullNumber, "yearly">>, <<NaN, "yearly">>,
    <<0, "hourly">>, <<24, "hourly">>, <<25, "hourly">>, <<100, "hourly">>,
    <<49999, "yearly">>, <<50000, "yearly">>, <<99999, "yearly">>,
    <<100000, NULL>>, <<149999, "yearly">>, <<150000, "yearly">>,
    <<199999, "yearly">>, <<200000, "yearly">> }

AnalyticsJob(id, platform, salary) ==
  [id |-> id, platform |-> platform, salary_min |-> salary[1],
   salary_type |-> salary[2], contract_type |-> NULL]

AnalyticsInit ==
  /\ callOp = "generateAnalytics"
  /\ \E n \in 0..MaxAnalyticsBatch :
       \E f \in [1..n -> {"remotive", "jobicy"} \X AnalyticsSalaries] :
         callArgs = [k \in 1..n |-> AnalyticsJob(k, f[k][1], f[k][2])]
  /\ callRes = <<>>
  /\ DedupeIdle
  /\ SimIdle
  /\ CleanIdle
  /\ CoreIdle
  /\ FetchIdle

\* generateAnalytics(jobs)
AnalyticsCall ==
  /\ callOp = "generateAnalytics"
  /\ callRes = <<>>
  /\ callRes' = <<generateAnalytics(callArgs)>>
  /\ UNCHANGED <<callOp, callArgs>>
  /\ UNCHANGED <<simVars, dedupeVars, cleanVars, coreVars, fetchVars>>

AnalyticsNext == AnalyticsCall

SpecAnalytics == AnalyticsInit /\ [][AnalyticsNext]_vars

analyticsDone == callOp = "generateAnalytics" /\ callRes # <<>>

\* the sum of the counts of a counter
RECURSIVE sumOver(_, _)
sumOver(counter, keys) ==
  IF keys = {} THEN 0
  ELSE LET key == CHOOSE x \in keys : TRUE
       IN counter[key] + sumOver(counter, keys \ {key})

\* salary_min as a yearly figure: an hourly salary_min times 2080
normalizedToYearly(job) ==
  IF job.salary_type = "hourly" /\ job.salary_min \notin {NullNumber, NaN}
  THEN job.salary_min * HoursPerYear ELSE job.salary_min

\* is the job's normalized salary_min within the range the key names
inRange(job, r) ==
  LET y == normalizedToYearly(job)
      number == y # NullNumber /\ y # NaN
  IN CASE r = "unknown" -> job.salary_min = NullNumber
       [] r = "under50k" -> number /\ y < 50000
       [] r = "50k-100k" -> number /\ y >= 50000 /\ y < 100000
       [] r = "100k-150k" -> number /\ y >= 100000 /\ y < 150000
       [] r = "150k-200k" -> number /\ y >= 150000 /\ y < 200000
       [] r = "over200k" -> number /\ y >= 200000

\* C21: generateAnalytics counts every job in exactly one salary range, the
\* range of its salary_min normalized to yearly (hourly times 2080): unknown
\* when salary_min is null, else below 50k, [50k, 100k), [100k, 150k),
\* [150k, 200k) or 200k and more; the six counts sum to totalJobs, and so do
\* the counts by platform
C21_SalaryRangeOfEveryJob ==
  analyticsDone =>
    /\ \A r \in SalaryRanges :
         callRes[1].bySalaryRange[r]
           = Cardinality({ k \in 1..Len(callArgs) : inRange(callArgs[k], r) })
    /\ sumOver(callRes[1].bySalaryRange, SalaryRanges) = callRes[1].totalJobs
    /\ sumOver(callRes[1].bySource, DOMAIN callRes[1].bySource)
         = callRes[1].totalJobs

\* ------------------------------------------------------------------------
\* dedupe.ts: areSimilar on the keys of two records
\* ------------------------------------------------------------------------
MaxNameLen == 7

\* names that are equal, contained in one another, one edit apart in seven
\* characters, one edit apart in two, and unrelated
SimilarNames ==
  { <<"a">>, <<"a", "b">>, <<"a", "c">>, <<"b">>,
    <<"a", "b", "c", "d", "e", "f", "g">>,
    <<"a", "b", "c", "d", "e", "f", "h">> }

SimilarRecords ==
  { [company |-> c, title |-> t] :
      c \in { n \in SimilarNames : Len(n) <= MaxNameLen },
      t \in { n \in SimilarNames : Len(n) <= MaxNameLen } }

SimilarInit ==
  /\ callOp = "areSimilar"
  /\ callArgs \in SimilarRecords \X SimilarRecords
  /\ callRes = <<>>
  /\ DedupeIdle
  /\ SimIdle
  /\ CleanIdle
  /\ CoreIdle
  /\ FetchIdle

\* areSimilar(getDedupeKey(a), getDedupeKey(b))
SimilarCall ==
  /\ callOp = "areSimilar"
  /\ callRes = <<>>
  /\ callRes' =
       <<areSimilar(getDedupeKey(callArgs[1]), getDedupeKey(callArgs[2]))>>
  /\ UNCHANGED <<callOp, callArgs>>
  /\ UNCHANGED <<simVars, dedupeVars, cleanVars, coreVars, fetchVars>>

SimilarNext == SimilarCall

SpecSimilar == SimilarInit /\ [][SimilarNext]_vars

similarDone == callOp = "areSimilar" /\ callRes # <<>>

\* the score of the two records' normalized companies, and of their titles
companyScore ==
  similarityScore(normalizeCompanyName(callArgs[1].company),
                  normalizeCompanyName(callArgs[2].company))

titleScore ==
  similarityScore(normalizeTitle(callArgs[1].title),
                  normalizeTitle(callArgs[2].title))

\* score >= 0.85, the score being the fraction <<numerator, denominator>>
AtLeastThreshold(score) == score[1] * 100 >= 85 * score[2]

\* C22: areSimilar is true exactly when the score of the normalized
\* companies is at least 0.85 and the score of the normalized titles is at
\* least 0.85; a company score below 0.85 makes it false whatever the title
\* score, and a title score below 0.85 whatever the company score
C22_BothScoresAtThreshold ==
  similarDone =>
    /\ callRes[1] = (AtLeastThreshold(companyScore) /\ AtLeastThreshold(titleScore))
    /\ ~AtLeastThreshold(companyScore) => callRes[1] = FALSE
    /\ ~AtLeastThreshold(titleScore) => callRes[1] = FALSE

\* similar records whose companies are one edit apart (6/7) and whose
\* titles contain one another (9/10)
C22_Witness ==
  /\ similarDone
  /\ callRes[1] = TRUE
  /\ companyScore = <<6, 7>>
  /\ titleScore = <<9, 10>>

\* ------------------------------------------------------------------------
\* extractSalaryFromText on phrases with the k shorthand
\* ------------------------------------------------------------------------

\* numerals below, next to and above 1000
KiloNumerals == {"5", "999", "1000", "2,000"}

\* a numeral with or without the k suffix
KiloBound(numeral, k) ==
  IF k THEN <<Num(numeral), Word("k")>> ELSE <<Num(numeral)>>

\* $100k - $150k and GBP 100k - 150k, each bound with or without its k,
\* and $100k+
KiloTexts ==
  { <<cur>> \o KiloBound(n1, k1) \o <<Sym("-")>> \o KiloBound(n2, k2) :
      cur \in {Sym("$"), Word("GBP")}, n1 \in KiloNumerals, k1 \in BOOLEAN,
      n2 \in KiloNumerals, k2 \in BOOLEAN }
  \cup
  { <<Sym("$")>> \o KiloBound(n1, k1) \o <<Sym("+")>> :
      n1 \in KiloNumerals, k1 \in BOOLEAN }

KiloInit ==
  /\ callOp = "extractSalaryFromText"
  /\ callArgs \in KiloTexts
  /\ callRes = <<>>
  /\ DedupeIdle
  /\ SimIdle
  /\ CleanIdle
  /\ CoreIdle
  /\ FetchIdle

KiloNext == SalaryCall

SpecKilo == KiloInit /\ [][KiloNext]_vars

\* the bounds as written in the text: the numeral and whether a k follows it
writtenBounds(text) ==
  { [raw |-> parseUSD(text[p].text), k |-> IsK(TokAt(text, p + 1))] :
      p \in { q \in 1..Len(text) : text[q].kind = "num" } }

\* a bound with its own k suffix and a numeral below 1000 is multiplied
expanded(b) == IF b.k /\ b.raw < 1000 THEN b.raw * 1000 ELSE b.raw

\* C23: in the patterns with the k shorthand (USD range, USD X+, GBP range)
\* a bound is multiplied by 1000 only when that bound carries a k suffix and
\* its numeral is below 1000; a bound without a k suffix, or with a numeral
\* of 1000 or more, is returned as written
C23_KiloPerBound ==
  (salaryExtracted /\ callArgs \in KiloTexts /\ callRes[1].found) =>
    Bounds(callRes[1]) \ {NullNumber}
      = { expanded(b) : b \in writtenBounds(callArgs) }

\* what the handlers do: every bound below 1000 is multiplied when any
\* bound of the phrase carries a k
C23_KiloPerPhrase ==
  (salaryExtracted /\ callArgs \in KiloTexts) =>
    /\ callRes[1].found
    /\ Bounds(callRes[1]) \ {NullNumber}
         = { IF (\E any \in writtenBounds(callArgs) : any.k) /\ b.raw < 1000
             THEN b.raw * 1000 ELSE b.raw : b \in writtenBounds(callArgs) }

\* ------------------------------------------------------------------------
\* deduplicateJobs: the records of its result
\* ------------------------------------------------------------------------
MaxFrameBatch == 3

\* mutant: the kept record is filled from the first of the others
bestRecord_Merged(cluster, js) ==
  IF Len(cluster) = 1 THEN js[cluster[1]]
  ELSE Only({ mergeJobData(js[best], js[Head(removedOf(cluster, best, js))]) :
              best \in {keptOf(cluster, js)} })

\* the record pushed to unique: cluster[0], or best = selectBestJob(cluster)
bestRecord(cluster, js) == js[keptOf(cluster, js)]

\* the { kept, removed } entries of result.duplicates
RECURSIVE duplicatesOf(_, _)
duplicatesOf(cs, js) ==
  IF Len(cs) = 0 THEN <<>>
  ELSE IF Len(Head(cs)) = 1 THEN duplicatesOf(Tail(cs), js)
  ELSE Only({ <<[kept |-> bestRecord(Head(cs), js),
                 removed |-> [n \in 1..Len(rest) |-> js[rest[n]]]]>> :
              rest \in {removedOf(Head(cs), keptOf(Head(cs), js), js)} })
       \o duplicatesOf(Tail(cs), js)

\* deduplicateJobs(jobs): result.unique, result.duplicates and result.stats
\* as records, and the array jobs as the call leaves it
dedupeResult(js) ==
  Only({ [unique |-> [n \in 1..Len(r.clusters) |-> bestRecord(r.clusters[n], js)],
          duplicates |-> duplicatesOf(r.clusters, js),
          stats |-> [totalInput |-> Len(js),
                     totalUnique |-> Len(r.clusters),
                     totalDuplicates |-> Len(js) - Len(r.clusters)],
          jobs |-> js] :
         r \in {deduplicateJobs(js)} })

FramePlatform(k) == <<"hn", "wwr", "jobicy">>[((k - 1) % 3) + 1]

\* the k-th record of a batch: its place gives id and platform, the first
\* being the latest; company and salary vary
FrameJob(k, company, salary, stack) ==
  [id |-> FramePlatform(k) \o ":" \o ToString(k),
   platform |-> FramePlatform(k),
   external_id |-> ToString(k),
   title |-> chars("dev"), company |-> company,
   description |-> NullText,
   salary_min |-> salary[1], salary_max |-> salary[2],
   salary_currency |-> salary[3], salary_type |-> salary[4],
   contract_type |-> NULL, experience_level |-> NULL,
   location |-> NullText, tech_stack |-> stack, tags |-> <<>>,
   posted_at |-> MaxFrameBatch + 1 - k, raw |-> "payload"]

FrameFields ==
  {chars("acme"), chars("acme inc"), chars("zeta")}
    \X {NoSalaryFields, <<80000, 120000, "USD", "yearly">>}
    \X {<<"python">>}

FrameBatches ==
  UNION { { [k \in 1..n |-> FrameJob(k, f[k][1], f[k][2], f[k][3])] :
            f \in [1..n -> FrameFields] } : n \in 0..MaxFrameBatch }

FrameInit ==
  /\ callOp = "deduplicateJobs.result"
  /\ callArgs \in FrameBatches
  /\ callRes = <<>>
  /\ DedupeIdle
  /\ SimIdle
  /\ CleanIdle
  /\ CoreIdle
  /\ FetchIdle

\* result = deduplicateJobs(jobs)
FrameDedupe ==
  /\ callOp = "deduplicateJobs.result"
  /\ callRes = <<>>
  /\ callRes' = <<dedupeResult(callArgs)>>
  /\ UNCHANGED <<callOp, callArgs>>
  /\ UNCHANGED <<simVars, dedupeVars, cleanVars, coreVars, fetchVars>>

FrameNext == FrameDedupe

SpecFrame == FrameInit /\ [][FrameNext]_vars

frameDone == callOp = "deduplicateJobs.result" /\ callRes # <<>>

\* the record is, field for field, the record of the batch with its id
AsGiven(record) ==
  \E k \in 1..Len(callArgs) :
    callArgs[k].id = record.id /\ callArgs[k] = record

\* C25: deduplicateJobs applies no merge and changes no record: every
\* record of unique, and every kept and removed record of duplicates, is
\* field for field the record of the input with that id, and the input
\* array has the length and the order it had
C25_RecordsAsGiven ==
  frameDone =>
    /\ \A n \in 1..Len(callRes[1].unique) : AsGiven(callRes[1].unique[n])
    /\ \A n \in 1..Len(callRes[1].duplicates) :
         /\ AsGiven(callRes[1].duplicates[n].kept)
         /\ \A l \in 1..Len(callRes[1].duplicates[n].removed) :
              AsGiven(callRes[1].duplicates[n].removed[l])
    /\ callRes[1].jobs = callArgs

\* a record without a salary is kept and a record with a salary is removed
C25_Witness ==
  /\ frameDone
  /\ \E n \in 1..Len(callRes[1].duplicates) :
       /\ callRes[1].duplicates[n].kept.salary_min = NullNumber
       /\ \E l \in 1..Len(callRes[1].duplicates[n].removed) :
            callRes[1].duplicates[n].removed[l].salary_min # NullNumber

\* ------------------------------------------------------------------------
\* normalizeCompanyName on names with stacked suffixes
\* ------------------------------------------------------------------------
MaxStacked == 4

\* suffixes of the list as they are written after a name
StackedSuffixes == {" inc.", " llc", " ltd.", " group"}

CompanyBases == {"acme", "blue sky"}

\* the name followed by the suffixes of the run
RECURSIVE stacked(_, _)
stacked(base, run) ==
  IF Len(run) = 0 THEN base ELSE stacked(base \o Head(run), Tail(run))

CompanyInit ==
  /\ callOp = "normalizeCompanyName"
  /\ \E base \in CompanyBases, n \in 0..MaxStacked :
       \E run \in [1..n -> StackedSuffixes] : callArgs = <<base, run>>
  /\ callRes = <<>>
  /\ DedupeIdle
  /\ SimIdle
  /\ CleanIdle
  /\ CoreIdle
  /\ FetchIdle

\* normalizeCompanyName of the name with its suffixes and of the name alone
CompanyCall ==
  /\ callOp = "normalizeCompanyName"
  /\ callRes = <<>>
  /\ callRes' =
       <<[stacked |->
            normalizeCompanyName(chars(stacked(callArgs[1], callArgs[2]))),
          bare |-> normalizeCompanyName(chars(callArgs[1]))]>>
  /\ UNCHANGED <<callOp, callArgs>>
  /\ UNCHANGED <<simVars, dedupeVars, cleanVars, coreVars, fetchVars>>

CompanyNext == CompanyCall

SpecCompany == CompanyInit /\ [][CompanyNext]_vars

companyDone == callOp = "normalizeCompanyName" /\ callRes # <<>>

\* C26: normalizeCompanyName peels every trailing suffix of the list,
\* however many are stacked: a name followed by a run of listed suffixes,
\* with or without dots, has the key of the name alone
C26_EveryStackedSuffixPeeled ==
  companyDone => callRes[1].stacked = callRes[1].bare

\* the same for runs of at most three suffixes, the passes of the loop
C26_ThreeStackedSuffixesPeeled ==
  (companyDone /\ Len(callArgs[2]) <= 3) =>
    callRes[1].stacked = callRes[1].bare

\* ------------------------------------------------------------------------
\* extractSalaryFromText on an hourly range
\* ------------------------------------------------------------------------

HourlyRates == {"5", "50", "75", "100", "1,000"}

\* words around the phrase that are no salary phrase
HourlyContext == {<<>>, <<Word("rate")>>, <<Word("remote"), Word("team")>>}

\* $A-B/hour and $A-B/hr with A < B, alone or within other words
HourlyTexts ==
  { before \o <<Sym("$"), Num(ab[1]), Sym("-"), Num(ab[2]), Sym("/"), Word(unit)>>
      \o after :
      before \in HourlyContext, after \in HourlyContext,
      unit \in {"hour", "hr"},
      ab \in { r \in HourlyRates \X HourlyRates : parseUSD(r[1]) < parseUSD(r[2]) } }

HourlyInit ==
  /\ callOp = "extractSalaryFromText"
  /\ callArgs \in HourlyTexts
  /\ callRes = <<>>
  /\ DedupeIdle
  /\ SimIdle
  /\ CleanIdle
  /\ CoreIdle
  /\ FetchIdle

HourlyNext == SalaryCall

SpecHourly == HourlyInit /\ [][HourlyNext]_vars

\* the numerals of the text in the order they are written
numerals(text) == SelectSeq(text, LAMBDA t : t.kind = "num")

\* C27: for a text whose only salary phrase is an hourly range $A-B/hour or
\* $A-B/hr, extractSalaryFromText returns min A, max B, currency USD and
\* type hourly
C27_HourlyRange ==
  (salaryExtracted /\ callArgs \in HourlyTexts) =>
    /\ callRes[1].found
    /\ callRes[1].min = parseUSD(numerals(callArgs)[1].text)
    /\ callRes[1].max = parseUSD(numerals(callArgs)[2].text)
    /\ callRes[1].currency = "USD"
    /\ callRes[1].type = "hourly"

\* what is returned: the bounds and the currency, with the type yearly, as
\* the USD range pattern comes first and reads no unit after the slash
C27_HourlyRangeReadAsYearly ==
  (salaryExtracted /\ callArgs \in HourlyTexts) =>
    /\ callRes[1].found
    /\ callRes[1].min = parseUSD(numerals(callArgs)[1].text)
    /\ callRes[1].max = parseUSD(numerals(callArgs)[2].text)
    /\ callRes[1].currency = "USD"
    /\ callRes[1].type = "yearly"

\* ------------------------------------------------------------------------
\* deduplicateJobs applied to its own result
\* ------------------------------------------------------------------------
MaxTwiceBatch == 3

\* a job that is close to two jobs that are not close to each other, and
\* those two
TwiceKeys == {KeyPlain, KeyTitleAB, KeyTitleAC}

\* a job that wins over its seed and one that does not
TwiceRanks == {RankHnBare, RankWwrSalary}

TwiceInit ==
  /\ callOp = "deduplicateJobs.twice"
  /\ \E n \in 0..MaxTwiceBatch :
       \E f \in [1..n -> TwiceKeys \X TwiceRanks] :
         callArgs = [k \in 1..n |-> MakeJob(k, f[k][1], f[k][2])]
  /\ callRes = <<>>
  /\ DedupeIdle
  /\ SimIdle
  /\ CleanIdle
  /\ CoreIdle
  /\ FetchIdle

\* first = deduplicateJobs(jobs); again = deduplicateJobs(first.unique)
DedupeTwice ==
  /\ callOp = "deduplicateJobs.twice"
  /\ callRes = <<>>
  /\ callRes' =
       Only({ <<[first |-> first, again |-> dedupeResult(first.unique)]>> :
              first \in {dedupeResult(callArgs)} })
  /\ UNCHANGED <<callOp, callArgs>>
  /\ UNCHANGED <<simVars, dedupeVars, cleanVars, coreVars, fetchVars>>

TwiceNext == DedupeTwice

SpecTwice == TwiceInit /\ [][TwiceNext]_vars

twiceDone == callOp = "deduplicateJobs.twice" /\ callRes # <<>>

\* no two records of the list are similar
NoTwoSimilar(js) ==
  \A k, l \in 1..Len(js) : k # l => ~similarJobs(js[k], js[l])

\* the second run returns the list it was given and reports no duplicate
NothingRemovedAgain ==
  /\ NoTwoSimilar(callRes[1].first.unique)
  /\ callRes[1].again.unique = callRes[1].first.unique
  /\ callRes[1].again.duplicates = <<>>
  /\ callRes[1].again.stats.totalDuplicates = 0

\* C28: deduplication is idempotent: no two records of
\* deduplicateJobs(J).unique are similar, and deduplicateJobs of that list
\* returns the same records, an empty list of duplicates and
\* totalDuplicates = 0
C28_DedupeIdempotent == twiceDone => NothingRemovedAgain

\* C28 as it holds: when being similar is symmetric and transitive among
\* the records of J, no two records of deduplicateJobs(J).unique are
\* similar and deduplicateJobs of that list returns the same records, an
\* empty list of duplicates and totalDuplicates = 0
C28_DedupeIdempotentIfTransitive ==
  (twiceDone /\ SimilarityIsEquivalence(callArgs)) => NothingRemovedAgain

\* three records, two of them similar, the later of the two kept
C28_Witness ==
  /\ twiceDone
  /\ SimilarityIsEquivalence(callArgs)
  /\ Len(callArgs) = 3
  /\ Len(callRes[1].first.unique) = 2
  /\ Len(callRes[1].first.duplicates) = 1
  /\ callRes[1].first.duplicates[1].kept.id # callArgs[1].id
  /\ callRes[1].first.duplicates[1].removed[1].id = callArgs[1].id

\* ------------------------------------------------------------------------
\* fetchers/index.ts: fetchAllJobs
\* ------------------------------------------------------------------------
MaxSources == 3

\* the names of the fetchers in the order of the table
FETCHERS ==
  <<"hn", "jobicy", "himalayas", "wwr", "remoteok", "remotive", "arbeitnow",
    "workingnomads">>

\* the first sources of the table
fetchers == SubSeq(FETCHERS, 1, MaxSources)

\* what a fetcher does when it completes: it returns jobs, it throws an
\* Error, or it throws a value that is no Error
Outcomes ==
  { [kind |-> "returns", jobs |-> <<>>, thrown |-> ""],
    [kind |-> "returns", jobs |-> <<"job-1", "job-2">>, thrown |-> ""],
    [kind |-> "throws Error", jobs |-> <<>>, thrown |-> "API failed: 500"],
    [kind |-> "throws value", jobs |-> <<>>, thrown |-> "timeout"] }

\* a FetchResult without the key error
NoError == "undefined"

Pending == [state |-> "pending"]

\* mutant: no try and catch around the fetcher
wrapped_NoCatch(name, outcome) ==
  IF outcome.kind = "returns"
  THEN [state |-> "fulfilled",
        value |-> [source |-> name, jobs |-> outcome.jobs, error |-> NoError]]
  ELSE [state |-> "rejected", reason |-> outcome.thrown]

\* the promise of the async callback around a fetcher once the fetcher
\* has completed: error.message of an Error, String(error) of another value
wrapped(name, outcome) ==
  IF outcome.kind = "returns"
  THEN [state |-> "fulfilled",
        value |-> [source |-> name, jobs |-> outcome.jobs, error |-> NoError]]
  ELSE [state |-> "fulfilled",
        value |-> [source |-> name, jobs |-> <<>>, error |-> outcome.thrown]]

FetchInit ==
  /\ promises = <<>>
  /\ settled = <<>>
  /\ fetchPc = "start"
  /\ fetchResults = <<>>
  /\ DedupeIdle
  /\ SimIdle
  /\ CleanIdle
  /\ CallIdle
  /\ CoreIdle

\* promises = fetchers.map(...): every fetcher is started
StartFetchers ==
  /\ fetchPc = "start"
  /\ promises' = [k \in 1..Len(fetchers) |-> Pending]
  /\ fetchPc' = "awaiting"
  /\ UNCHANGED <<settled, fetchResults>>
  /\ UNCHANGED <<simVars, dedupeVars, cleanVars, callVars, coreVars>>

\* a fetcher completes, whichever is the first to
FetcherCompletes ==
  /\ fetchPc = "awaiting"
  /\ \E k \in 1..Len(fetchers), outcome \in Outcomes :
       /\ promises[k] = Pending
       /\ promises' = [promises EXCEPT ![k] = wrapped(fetchers[k], outcome)]
       /\ settled' = Append(settled, [fetcher |-> k, outcome |-> outcome])
  /\ UNCHANGED <<fetchPc, fetchResults>>
  /\ UNCHANGED <<simVars, dedupeVars, cleanVars, callVars, coreVars>>

\* await Promise.all(promises): rejected once a promise is rejected,
\* fulfilled with the values in the order of the promises once all are;
\* results.push(...fetchResults); return results
PromiseAllSettles ==
  /\ fetchPc = "awaiting"
  /\ IF \E k \in 1..Len(promises) : promises[k].state = "rejected"
     THEN /\ fetchPc' = "rejected"
          /\ UNCHANGED fetchResults
     ELSE /\ \A k \in 1..Len(promises) : promises[k].state = "fulfilled"
          /\ fetchResults' = [k \in 1..Len(promises) |-> promises[k].value]
          /\ fetchPc' = "resolved"
  /\ UNCHANGED <<promises, settled>>
  /\ UNCHANGED <<simVars, dedupeVars, cleanVars, callVars, coreVars>>

FetchNext ==
  \/ StartFetchers
  \/ FetcherCompletes
  \/ PromiseAllSettles

\* every fetcher completes in the end, and a promise that can settle does
SpecFetch == FetchInit /\ [][FetchNext]_vars /\ WF_vars(FetchNext)

\* what the fetcher of the k-th source did
outcomeOf(k) ==
  (CHOOSE entry \in Range(settled) : entry.fetcher = k).outcome

\* one FetchResult per source in the order of the table; jobs = [] and the
\* message for a source whose fetcher threw, the jobs and no error for the
\* others
ResultsBySource ==
  /\ Len(fetchResults) = Len(fetchers)
  /\ \A k \in 1..Len(fetchers) :
       /\ fetchResults[k].source = fetchers[k]
       /\ IF outcomeOf(k).kind = "returns"
          THEN /\ fetchResults[k].jobs = outcomeOf(k).jobs
               /\ fetchResults[k].error = NoError
          ELSE /\ fetchResults[k].jobs = <<>>
               /\ fetchResults[k].error = outcomeOf(k).thrown

\* C30: fetchAllJobs always resolves and never rejects; it resolves with
\* one FetchResult per source in the order of the sources, whatever the
\* order in which the fetchers complete; a source whose fetcher throws has
\* jobs = [] and its error message, and the other sources have their jobs
C30_ResolvesInSourceOrder ==
  /\ [](fetchPc # "rejected")
  /\ [](fetchPc = "resolved" => ResultsBySource)
  /\ <>(fetchPc = "resolved")

\* the last source completed first, one fetcher threw and one returned jobs
C30_Witness ==
  /\ fetchPc = "resolved"
  /\ settled[1].fetcher = Len(fetchers)
  /\ \E k \in 1..Len(fetchers) : outcomeOf(k).kind = "throws Error"
  /\ \E k \in 1..Len(fetchers) : Len(fetchResults[k].jobs) > 0

====
